---- MODULE Spec2Model ----
(***************************************************************************)
(* Gift Card Empire: the simulation core of src/main.rs (GameData, the     *)
(* market engine, the order book, the achievement tracker, the random      *)
(* event manager and the App commands that mutate them).                   *)
(*                                                                         *)
(* The whole aggregate is one record, game_data, as in the source (struct  *)
(* GameData owned by App).  Every handler is an operator from a GameData   *)
(* record to a GameData record, written statement by statement from the    *)
(* Rust code, so that handlers that call each other compose.               *)
(***************************************************************************)
EXTENDS Integers, Sequences, FiniteSets, TLC

\* `let x = v; F(x)`: v is evaluated once and F sees its value.  The
\* handlers below are chains of such bindings, one per statement.
Let(v, F(_)) == CHOOSE r \in {F(x) : x \in {v}} : TRUE

(***************************************************************************)
(* IEEE-754 binary32 arithmetic on non-negative values.                    *)
(* A value is <<m, e>> meaning m * 2^e with 2^23 <= m < 2^24; zero is      *)
(* <<0, 0>>.  Every operation rounds to nearest, ties to even, as the      *)
(* hardware does for Rust's f32.  All intermediate integers stay below     *)
(* 2^31.                                                                   *)
(***************************************************************************)
Pow2(k) == 2 ^ k

TwoTo12 == Pow2(12)
TwoTo22 == Pow2(22)
TwoTo23 == Pow2(23)
TwoTo24 == Pow2(24)

FZero == <<0, 0>>

\* The number of bits of the integer x, 0 <= x < 2^31.
BitLen(x) == Cardinality({k \in 0..30 : Pow2(k) <= x})

\* Round the mantissa q (2^23 <= q < 2^24) up when the discarded part is
\* more than half an ulp, or exactly half and q is odd.
FRoundUp(q, e, above, tie) ==
    IF above \/ (tie /\ q % 2 = 1)
    THEN IF q + 1 = TwoTo24 THEN <<TwoTo23, e + 1>> ELSE <<q + 1, e>>
    ELSE <<q, e>>

\* floor(n * 2^k / d) and the remainder, by long division in two steps so that
\* no intermediate exceeds 2^24: <<quotient, remainder>>.  n, d < 2^12 <= 2^k.
FDivShifted(n, d, k) ==
    Let(n * Pow2(k - 12), LAMBDA high :
    Let((high % d) * TwoTo12, LAMBDA low :
        <<(high \div d) * TwoTo12 + (low \div d), low % d>>))

\* The f32 nearest to n/d, for integers 0 <= n < 2^12, 0 < d < 2^12: a decimal
\* literal (0.9 is FRatio(9, 10)), an integer cast (n as f32 is FRatio(n, 1))
\* and an f32 division of two integers.
FRatio(n, d) ==
    IF n = 0 THEN FZero
    ELSE Let(23 + BitLen(d) - BitLen(n), LAMBDA k0 :
         Let(IF FDivShifted(n, d, k0)[1] >= TwoTo23 THEN k0 ELSE k0 + 1, LAMBDA k :
         Let(FDivShifted(n, d, k), LAMBDA qr :
             FRoundUp(qr[1], -k, 2 * qr[2] > d, 2 * qr[2] = d))))

\* The 48-bit product of two mantissas, from 12-bit limbs: <<hi, lo>> with
\* product = hi * 2^24 + lo.
FMulLimbs(ma, mb) ==
    Let(<<ma \div TwoTo12, ma % TwoTo12, mb \div TwoTo12, mb % TwoTo12>>, LAMBDA l :
    Let(l[1] * l[4] + l[2] * l[3], LAMBDA mid :
    Let((mid % TwoTo12) * TwoTo12 + l[2] * l[4], LAMBDA low :
        <<l[1] * l[3] + (mid \div TwoTo12) + (low \div TwoTo24), low % TwoTo24>>)))

\* a * b
FMul(a0, b0) ==
    Let(<<a0, b0>>, LAMBDA p :
        IF p[1][1] = 0 \/ p[2][1] = 0 THEN FZero
        ELSE Let(<<FMulLimbs(p[1][1], p[2][1]), p[1][2] + p[2][2]>>, LAMBDA h :
                IF h[1][1] >= TwoTo23
                THEN FRoundUp(h[1][1], h[2] + 24,
                              h[1][2] > TwoTo23, h[1][2] = TwoTo23)
                ELSE FRoundUp(2 * h[1][1] + (h[1][2] \div TwoTo23), h[2] + 23,
                              (h[1][2] % TwoTo23) > TwoTo22,
                              (h[1][2] % TwoTo23) = TwoTo22)))

\* The f32 nearest to the positive integer s * 2^e, 0 < s < 2^31.
FNorm(s, e) ==
    Let(BitLen(s) - 24, LAMBDA shift :
        IF shift <= 0 THEN <<s * Pow2(-shift), e + shift>>
        ELSE FRoundUp(s \div Pow2(shift), e + shift,
                      s % Pow2(shift) > Pow2(shift - 1),
                      s % Pow2(shift) = Pow2(shift - 1)))

\* a + b and a - b (a > b) for exponents at most 6 apart, which covers every
\* sum the program forms (a discount fraction plus a demand adjustment).
FAdd(a0, b0) ==
    Let(<<a0, b0>>, LAMBDA p :
        IF p[2][1] = 0 THEN p[1] ELSE IF p[1][1] = 0 THEN p[2]
        ELSE Let(IF p[1][2] >= p[2][2] THEN p ELSE <<p[2], p[1]>>, LAMBDA q :
                CASE q[1][2] - q[2][2] <= 6 ->
                    FNorm(q[1][1] * Pow2(q[1][2] - q[2][2]) + q[2][1], q[2][2])))

FSub(a0, b0) ==
    Let(<<a0, b0>>, LAMBDA p :
        IF p[2][1] = 0 THEN p[1]
        ELSE Let(p[1][2] - p[2][2], LAMBDA d :
                CASE d >= 0 /\ d <= 6 /\ p[1][1] * Pow2(d) > p[2][1] ->
                    FNorm(p[1][1] * Pow2(d) - p[2][1], p[2][2])))

FLtV(a, b) ==
    IF a[1] = 0 THEN b[1] # 0
    ELSE IF b[1] = 0 THEN FALSE
    ELSE a[2] < b[2] \/ (a[2] = b[2] /\ a[1] < b[1])

FLt(a0, b0) == Let(<<a0, b0>>, LAMBDA p : FLtV(p[1], p[2]))
FLe(a0, b0) == Let(<<a0, b0>>, LAMBDA p : p[1] = p[2] \/ FLtV(p[1], p[2]))
FGt(a0, b0) == Let(<<a0, b0>>, LAMBDA p : FLtV(p[2], p[1]))
FGe(a0, b0) == Let(<<a0, b0>>, LAMBDA p : p[1] = p[2] \/ FLtV(p[2], p[1]))

\* f32::clamp(lo, hi)
FClamp(x0, lo, hi) ==
    Let(x0, LAMBDA x : IF FLtV(x, lo) THEN lo ELSE IF FLtV(hi, x) THEN hi ELSE x)

\* `x as u32`: truncation toward zero.
FTrunc(x0) ==
    Let(x0, LAMBDA x :
        IF x[1] = 0 THEN 0
        ELSE IF x[2] >= 0 THEN x[1] * Pow2(x[2])
        ELSE IF x[2] <= -24 THEN 0
        ELSE x[1] \div Pow2(-x[2]))

\* `x.round() as u32`: f32::round rounds half-way cases away from zero.
FRound(x0) ==
    Let(x0, LAMBDA x :
        IF x[1] = 0 THEN 0
        ELSE IF x[2] >= 0 THEN x[1] * Pow2(x[2])
        ELSE IF x[2] < -24 THEN 0
        ELSE (x[1] + Pow2(-x[2] - 1)) \div Pow2(-x[2]))

\* The f32 literals of the source.
f0_02 == FRatio(2, 100)
f0_03 == FRatio(3, 100)
f0_6  == FRatio(6, 10)
f0_7  == FRatio(7, 10)
f0_8  == FRatio(8, 10)
f0_80 == FRatio(80, 100)
f0_85 == FRatio(85, 100)
f0_87 == FRatio(87, 100)
f0_9  == FRatio(9, 10)
f0_93 == FRatio(93, 100)
f0_95 == FRatio(95, 100)
f0_98 == FRatio(98, 100)
f1_0  == FRatio(1, 1)
f1_05 == FRatio(105, 100)
f1_1  == FRatio(11, 10)
f1_2  == FRatio(12, 10)
f1_3  == FRatio(13, 10)
f1_4  == FRatio(14, 10)
f1_5  == FRatio(15, 10)
f1_8  == FRatio(18, 10)
f2_0  == FRatio(2, 1)

(***************************************************************************)
(* Sequence helpers.                                                       *)
(***************************************************************************)
Min(a, b) == IF a <= b THEN a ELSE b
Max(a, b) == IF a >= b THEN a ELSE b

\* Vec::truncate(n)
Truncate(s, n) == IF Len(s) > n THEN SubSeq(s, 1, n) ELSE s

\* Vec::remove(i), 1-based
RemoveAt(s, i) == SubSeq(s, 1, i - 1) \o SubSeq(s, i + 1, Len(s))

\* iter().sum() of a sequence of numbers
RECURSIVE SumFrom(_, _, _)
SumFrom(s, i, acc) == IF i > Len(s) THEN acc ELSE SumFrom(s, i + 1, acc + s[i])

SumSeq(s0) == Let(s0, LAMBDA s : SumFrom(s, 1, 0))

\* The None of an Option<String>.  Any other Option is a sequence of length
\* at most 1.
None == "None"

(***************************************************************************)
(* Activity log (GameData::recent_activities).  An entry keeps the kind of *)
(* message and the values formatted into it.                               *)
(***************************************************************************)
LogCap == 10

Entry(msg, who, n) == [msg |-> msg, who |-> who, n |-> n]

\* recent_activities.insert(0, entry)
LogInsert(g, e) == [g EXCEPT !.recent_activities = <<e>> \o @]

\* if recent_activities.len() > 10 { recent_activities.truncate(10) }
LogTruncate(g) == [g EXCEPT !.recent_activities = Truncate(@, LogCap)]

(***************************************************************************)
(* Season and market engine.                                               *)
(***************************************************************************)
Retailers == <<"Amazon", "Starbucks", "Target", "iTunes", "Walmart">>

\* Season_from_day without the shift to a 0-based day of the year.
Season_from_day_unshifted(day) ==
    LET season_day == day % 360
    IN  IF season_day <= 89 THEN "Spring"
        ELSE IF season_day <= 179 THEN "Summer"
        ELSE IF season_day <= 269 THEN "Fall"
        ELSE "Winter"

Season_from_day(day) ==
    LET season_day == (day - 1) % 360
    IN  IF season_day <= 89 THEN "Spring"
        ELSE IF season_day <= 179 THEN "Summer"
        ELSE IF season_day <= 269 THEN "Fall"
        ELSE "Winter"

Season_demand_modifier(season) ==
    CASE season = "Spring" -> f1_0
      [] season = "Summer" -> f1_1
      [] season = "Fall"   -> f0_9
      [] season = "Winter" -> f1_4

Season_retailer_bonus(season, retailer) ==
    CASE season = "Summer" /\ retailer = "Target"    -> f1_2
      [] season = "Summer" /\ retailer = "Walmart"   -> f1_1
      [] season = "Fall"   /\ retailer = "iTunes"    -> f1_3
      [] season = "Fall"   /\ retailer = "Amazon"    -> f1_2
      [] season = "Winter" /\ retailer = "Amazon"    -> f1_5
      [] season = "Winter" /\ retailer = "Starbucks" -> f1_3
      [] season = "Winter" /\ retailer = "iTunes"    -> f1_4
      [] season = "Winter" /\ retailer \notin {"Amazon", "Starbucks", "iTunes"} -> f1_2
      [] OTHER -> f1_0

MarketEvent_new(name, retailer, price_mult, demand_mult, duration) ==
    [name |-> name, retailer_affected |-> retailer,
     price_multiplier |-> price_mult, demand_multiplier |-> demand_mult,
     duration_days |-> duration, remaining_days |-> duration]

MarketEvent_is_expired(event) == event.remaining_days = 0

\* affects_retailer taking every event to affect every retailer.
MarketEvent_affects_everyone(event, retailer) == TRUE

MarketEvent_affects_retailer(event, retailer) ==
    event.retailer_affected = None \/ event.retailer_affected = retailer

MarketConditions_new ==
    [current_season |-> "Spring", active_events |-> <<>>,
     base_demand_modifier |-> f1_0, next_event_in_days |-> 3 + (1 % 7)]

\* MarketConditions::update_season, on the market_conditions field of g
update_season(g) ==
    LET new_season == Season_from_day(g.day)
    IN  IF new_season # g.market_conditions.current_season
        THEN [g EXCEPT !.market_conditions.current_season = new_season,
                       !.market_conditions.base_demand_modifier =
                            Season_demand_modifier(new_season)]
        ELSE g

\* The 8-entry template palette, keyed by day % 8.
MarketEventTemplate(event_type) ==
    CASE event_type = 0 -> MarketEvent_new("Tech Surge", "iTunes", f0_9, f1_5, 4)
      [] event_type = 1 -> MarketEvent_new("Coffee Festival", "Starbucks", f1_1, f1_8, 3)
      [] event_type = 2 -> MarketEvent_new("Supply Chain Issues", None, f1_3, f0_7, 5)
      [] event_type = 3 -> MarketEvent_new("Amazon Prime Day", "Amazon", f0_85, f2_0, 2)
      [] event_type = 4 -> MarketEvent_new("Back to School", "Target", f1_05, f1_4, 7)
      [] event_type = 5 -> MarketEvent_new("Economic Downturn", None, f1_0, f0_6, 6)
      [] event_type = 6 -> MarketEvent_new("Walmart Expansion", "Walmart", f0_95, f1_3, 4)
      [] OTHER          -> MarketEvent_new("Market Boom", None, f0_9, f1_2, 5)

\* generate_random_event creating the event with its first day already spent.
Market_generate_random_event_started(g) ==
    LET event == MarketEventTemplate(g.day % 8)
        g1 == LogInsert(g, Entry("New market event", event.name, 0))
    IN  [g1 EXCEPT !.market_conditions.active_events =
                       Append(@, [event EXCEPT !.remaining_days = @ - 1])]

\* MarketConditions::generate_random_event
Market_generate_random_event(g) ==
    LET event == MarketEventTemplate(g.day % 8)
        g1 == LogInsert(g, Entry("New market event", event.name, 0))
    IN  [g1 EXCEPT !.market_conditions.active_events = Append(@, event)]

\* The retain_mut loop of MarketConditions::process_daily_events: an event with
\* remaining_days > 0 is decremented and kept; one already at 0 is logged and
\* dropped.  acc is [kept, log].
RECURSIVE Market_age_events(_, _, _)
Market_age_events(events, i, acc) ==
    IF i > Len(events) THEN acc
    ELSE Let(IF events[i].remaining_days > 0
             THEN [acc EXCEPT !.kept =
                      Append(@, [events[i] EXCEPT !.remaining_days = @ - 1])]
             ELSE [acc EXCEPT !.log =
                      <<Entry("Market event has ended", events[i].name, 0)>> \o @],
             LAMBDA next : Market_age_events(events, i + 1, next))

\* MarketConditions::process_daily_events
Market_process_daily_events(g) ==
    Let(Market_age_events(g.market_conditions.active_events, 1,
                          [kept |-> <<>>, log |-> g.recent_activities]), LAMBDA aged :
    Let([g EXCEPT !.market_conditions.active_events = aged.kept,
                  !.recent_activities = aged.log], LAMBDA g1 :
        IF g1.market_conditions.next_event_in_days > 0
        THEN [g1 EXCEPT !.market_conditions.next_event_in_days = @ - 1]
        ELSE [Market_generate_random_event(g1) EXCEPT
                 !.market_conditions.next_event_in_days = 5 + (g.day % 10)]))

RECURSIVE EventPriceProduct(_, _, _, _)
EventPriceProduct(events, i, retailer, multiplier) ==
    IF i > Len(events) THEN multiplier
    ELSE Let(IF MarketEvent_affects_retailer(events[i], retailer)
             THEN FMul(multiplier, events[i].price_multiplier)
             ELSE multiplier,
             LAMBDA next : EventPriceProduct(events, i + 1, retailer, next))

RECURSIVE EventDemandProduct(_, _, _, _)
EventDemandProduct(events, i, retailer, multiplier) ==
    IF i > Len(events) THEN multiplier
    ELSE Let(IF MarketEvent_affects_retailer(events[i], retailer)
             THEN FMul(multiplier, events[i].demand_multiplier)
             ELSE multiplier,
             LAMBDA next : EventDemandProduct(events, i + 1, retailer, next))

RECURSIVE ModifierPriceProduct(_, _, _)
ModifierPriceProduct(modifiers, i, multiplier) ==
    IF i > Len(modifiers) THEN multiplier
    ELSE Let(FMul(multiplier, modifiers[i].price_multiplier),
             LAMBDA next : ModifierPriceProduct(modifiers, i + 1, next))

get_price_multiplier(g, retailer) ==
    Let(FMul(f1_0, Season_retailer_bonus(g.market_conditions.current_season, retailer)),
        LAMBDA multiplier :
            EventPriceProduct(g.market_conditions.active_events, 1, retailer, multiplier))

get_price_multiplier_with_random_events(g, retailer) ==
    Let(get_price_multiplier(g, retailer), LAMBDA base_multiplier :
        ModifierPriceProduct(g.random_events.temp_modifiers, 1, base_multiplier))

get_demand_multiplier(g, retailer) ==
    Let(FMul(g.market_conditions.base_demand_modifier,
             Season_retailer_bonus(g.market_conditions.current_season, retailer)),
        LAMBDA multiplier :
            EventDemandProduct(g.market_conditions.active_events, 1, retailer, multiplier))

(***************************************************************************)
(* Business analytics.                                                     *)
(***************************************************************************)
RevenueWindow == 30

BusinessAnalytics_new ==
    [total_revenue |-> 0, total_purchases |-> 0, orders_completed |-> 0,
     orders_expired |-> 0, best_day_revenue |-> 0, cards_sold |-> 0,
     cards_expired |-> 0, daily_revenues |-> <<0>>, profit_margins |-> <<>>]

record_purchase(g, amount) ==
    [g EXCEPT !.analytics.total_purchases = @ + amount]

\* BusinessAnalytics::record_sale.  A profit-margin sample is kept as the
\* <<revenue, cost>> pair that ((revenue - cost) / revenue) * 100.0 is computed
\* from; no handler reads the samples back.
record_sale(g, revenue, cost, cards_sold) ==
    LET a  == g.analytics
        n  == Len(g.analytics.daily_revenues)
        today == IF n > 0 THEN g.analytics.daily_revenues[n] + revenue ELSE 0
    IN  [g EXCEPT !.analytics =
            [a EXCEPT !.total_revenue = @ + revenue,
                      !.orders_completed = @ + 1,
                      !.cards_sold = @ + cards_sold,
                      !.profit_margins =
                          IF revenue > 0 THEN Append(@, <<revenue, cost>>) ELSE @,
                      !.daily_revenues =
                          IF n > 0 THEN [@ EXCEPT ![n] = today] ELSE @,
                      !.best_day_revenue =
                          IF n > 0 THEN Max(@, today) ELSE @]]

record_expired_order(g) == [g EXCEPT !.analytics.orders_expired = @ + 1]

record_expired_cards(g, count) == [g EXCEPT !.analytics.cards_expired = @ + count]

start_new_day(g) ==
    Let(Append(g.analytics.daily_revenues, 0), LAMBDA pushed :
        [g EXCEPT !.analytics.daily_revenues =
            IF Len(pushed) > RevenueWindow THEN Tail(pushed) ELSE pushed])
(***************************************************************************)
(* Achievement tracker.  The catalog is fixed; the state of an entry is    *)
(* its unlocked flag, unlock date and progress.                            *)
(***************************************************************************)
AchievementTypes ==
    {"FirstSale", "EarlyBird", "Entrepreneur", "BusinessMogul", "Millionaire",
     "PerfectWeek", "SpeedDemon", "Efficiency", "MarketMaster",
     "LegendaryStatus", "CustomerFavorite", "TrustedSeller",
     "WinterWinner", "SeasonVeteran", "EventSurvivor",
     "Collector", "DiversifiedPortfolio", "QuickTurnaround"}

\* <<target, reward_cash>> of AchievementTracker::initialize_achievements
AchievementCatalog(t) ==
    CASE t = "FirstSale"            -> <<1, 100>>
      [] t = "EarlyBird"            -> <<10, 500>>
      [] t = "Entrepreneur"         -> <<10000, 1000>>
      [] t = "BusinessMogul"        -> <<50000, 5000>>
      [] t = "Millionaire"          -> <<1000000, 50000>>
      [] t = "PerfectWeek"          -> <<7, 2000>>
      [] t = "SpeedDemon"           -> <<5, 1500>>
      [] t = "Efficiency"           -> <<30, 3000>>
      [] t = "MarketMaster"         -> <<5, 2500>>
      [] t = "LegendaryStatus"      -> <<5, 2000>>
      [] t = "CustomerFavorite"     -> <<100, 3000>>
      [] t = "TrustedSeller"        -> <<500, 10000>>
      [] t = "WinterWinner"         -> <<5000, 2000>>
      [] t = "SeasonVeteran"        -> <<4, 3000>>
      [] t = "EventSurvivor"        -> <<10, 2500>>
      [] t = "Collector"            -> <<100, 2000>>
      [] t = "DiversifiedPortfolio" -> <<5, 1000>>
      [] t = "QuickTurnaround"      -> <<1, 1500>>

Achievement_target(t) == AchievementCatalog(t)[1]
Achievement_reward(t) == AchievementCatalog(t)[2]

Achievement_new == [unlocked |-> FALSE, unlock_date |-> <<>>, progress |-> 0]

AchievementTracker_new ==
    [achievements |-> [t \in AchievementTypes |-> Achievement_new],
     total_unlocked |-> 0, recent_unlock |-> None,
     consecutive_perfect_days |-> 0, consecutive_efficiency_days |-> 0,
     orders_today |-> 0, favorable_market_purchases |-> 0,
     seasonal_winter_profit |-> 0, seasons_survived |-> <<>>,
     events_survived |-> 0]

\* Achievement::unlock
Achievement_unlock(a, day) ==
    IF ~a.unlocked THEN [a EXCEPT !.unlocked = TRUE, !.unlock_date = <<day>>]
    ELSE a

\* check_and_unlock storing the progress it is called with, not the maximum.
check_and_unlock_overwriting(g, t, progress) ==
    IF g.achievements.achievements[t].unlocked THEN g
    ELSE Let([g EXCEPT !.achievements.achievements[t].progress = progress],
             LAMBDA g1 :
                IF progress >= Achievement_target(t)
                THEN LogInsert(
                        [g1 EXCEPT !.achievements.achievements[t] =
                                       Achievement_unlock(@, g.day),
                                   !.achievements.total_unlocked = @ + 1,
                                   !.achievements.recent_unlock = t],
                        Entry("Achievement Unlocked", t, Achievement_reward(t)))
                ELSE g1)

\* check_and_unlock counting an achievement again when it is already unlocked.
check_and_unlock_recounting(g, t, progress) ==
    IF g.achievements.achievements[t].unlocked
    THEN IF progress >= Achievement_target(t)
         THEN [g EXCEPT !.achievements.total_unlocked = @ + 1] ELSE g
    ELSE Let([g EXCEPT !.achievements.achievements[t].progress = Max(@, progress)],
             LAMBDA g1 :
                IF progress >= Achievement_target(t)
                THEN LogInsert(
                        [g1 EXCEPT !.achievements.achievements[t] =
                                       Achievement_unlock(@, g.day),
                                   !.achievements.total_unlocked = @ + 1,
                                   !.achievements.recent_unlock = t],
                        Entry("Achievement Unlocked", t, Achievement_reward(t)))
                ELSE g1)

\* AchievementTracker::check_and_unlock
check_and_unlock(g, t, progress) ==
    IF g.achievements.achievements[t].unlocked THEN g
    ELSE Let([g EXCEPT !.achievements.achievements[t].progress = Max(@, progress)],
             LAMBDA g1 :
                IF progress >= Achievement_target(t)
                THEN LogInsert(
                        [g1 EXCEPT !.achievements.achievements[t] =
                                       Achievement_unlock(@, g.day),
                                   !.achievements.total_unlocked = @ + 1,
                                   !.achievements.recent_unlock = t],
                        Entry("Achievement Unlocked", t, Achievement_reward(t)))
                ELSE g1)

\* The "find the locked achievement of this type, unlock it and count it"
\* block shared by record_order_completion and process_daily_achievements.
unlock_silently(g, t) ==
    IF g.achievements.achievements[t].unlocked THEN g
    ELSE [g EXCEPT !.achievements.achievements[t] = Achievement_unlock(@, g.day),
                   !.achievements.total_unlocked = @ + 1,
                   !.achievements.recent_unlock = t]

check_cash_achievements(g) ==
    Let(check_and_unlock(g, "Entrepreneur", g.cash), LAMBDA g1 :
    Let(check_and_unlock(g1, "BusinessMogul", g.cash), LAMBDA g2 :
        check_and_unlock(g2, "Millionaire", g.cash)))

\* called with (analytics.orders_completed, reputation) by fulfill_order
check_order_achievements(g, total_orders, reputation) ==
    Let(check_and_unlock(g, "FirstSale", total_orders), LAMBDA g1 :
    Let(check_and_unlock(g1, "EarlyBird", total_orders), LAMBDA g2 :
    Let(check_and_unlock(g2, "CustomerFavorite", total_orders), LAMBDA g3 :
    Let(check_and_unlock(g3, "TrustedSeller", total_orders), LAMBDA g4 :
        check_and_unlock(g4, "LegendaryStatus", reputation)))))

check_inventory_achievements(g) ==
    Let(SumSeq([i \in 1..Len(g.inventory) |-> g.inventory[i].quantity]),
        LAMBDA total_cards :
    Let(Cardinality({g.inventory[i].card.retailer : i \in 1..Len(g.inventory)}),
        LAMBDA unique_retailers :
    Let(check_and_unlock(g, "Collector", total_cards), LAMBDA g1 :
        check_and_unlock(g1, "DiversifiedPortfolio", unique_retailers))))

check_seasonal_achievements(g) ==
    Let(g.market_conditions.current_season, LAMBDA season :
    Let(IF \A i \in 1..Len(g.achievements.seasons_survived) :
               g.achievements.seasons_survived[i] # season
        THEN [g EXCEPT !.achievements.seasons_survived = Append(@, season)]
        ELSE g, LAMBDA g1 :
    Let(check_and_unlock(g1, "SeasonVeteran", Len(g1.achievements.seasons_survived)),
        LAMBDA g2 :
        IF season = "Winter" /\ g.achievements.seasonal_winter_profit >= 5000
        THEN check_and_unlock(g2, "WinterWinner", g.achievements.seasonal_winter_profit)
        ELSE g2)))

record_order_completion(g) ==
    Let([g EXCEPT !.achievements.orders_today = @ + 1], LAMBDA g1 :
        IF g1.achievements.orders_today >= 5
        THEN unlock_silently(g1, "SpeedDemon")
        ELSE g1)

record_market_purchase(g, price_multiplier) ==
    IF FLe(price_multiplier, f0_9)
    THEN Let([g EXCEPT !.achievements.favorable_market_purchases = @ + 1], LAMBDA g1 :
             check_and_unlock(g1, "MarketMaster",
                              g1.achievements.favorable_market_purchases))
    ELSE g

process_daily_achievements(g, orders_completed_today, orders_expired_today) ==
    Let([g EXCEPT !.achievements.orders_today = 0,
                  !.achievements.consecutive_perfect_days =
                      IF orders_expired_today = 0 /\ orders_completed_today > 0
                      THEN @ + 1 ELSE 0], LAMBDA g1 :
    Let(IF g1.achievements.consecutive_perfect_days >= 7
        THEN unlock_silently(g1, "PerfectWeek") ELSE g1, LAMBDA g2 :
    Let(g.analytics.orders_completed + g.analytics.orders_expired, LAMBDA total_orders :
    Let(IF total_orders > 0
        THEN [g2 EXCEPT !.achievements.consecutive_efficiency_days =
                  IF FGe(FRatio(g.analytics.orders_completed, total_orders), f0_9)
                  THEN @ + 1 ELSE 0]
        ELSE g2, LAMBDA g3 :
        IF g3.achievements.consecutive_efficiency_days >= 30
        THEN unlock_silently(g3, "Efficiency") ELSE g3))))

record_event_survival(g) ==
    Let([g EXCEPT !.achievements.events_survived = @ + 1], LAMBDA g1 :
        check_and_unlock(g1, "EventSurvivor", g1.achievements.events_survived))

(***************************************************************************)
(* Random event manager.  An Option<RandomEvent> is a sequence of length   *)
(* at most 1.                                                              *)
(***************************************************************************)
HistoryCap == 10

RandomEvent_new_auto_event(event_type, title, cash, reputation, duration) ==
    [event_type |-> event_type, title |-> title, choices |-> <<>>,
     auto_resolve |-> TRUE, cash_impact |-> cash, reputation_impact |-> reputation,
     inventory_impact |-> <<>>, duration_days |-> duration, active |-> TRUE]

RandomEvent_new_choice_event(event_type, title, choices) ==
    [event_type |-> event_type, title |-> title, choices |-> choices,
     auto_resolve |-> FALSE, cash_impact |-> 0, reputation_impact |-> 0,
     inventory_impact |-> <<>>, duration_days |-> 1, active |-> TRUE]

TempModifier_new(name, price_mult, demand_mult, remaining) ==
    [name |-> name, price_multiplier |-> price_mult,
     demand_multiplier |-> demand_mult, reputation_protection |-> FALSE,
     remaining_days |-> remaining]

\* RandomEvent::apply_choice: the (cash, reputation, temp modifiers) result and
\* the inventory_impact left on the event.  choice is 0-based.
apply_choice(event, choice) ==
    LET t == event.event_type
        R(cash, rep, mods, inv) ==
            [cash |-> cash, reputation |-> rep, modifiers |-> mods,
             inventory_impact |-> event.inventory_impact \o inv]
    IN  CASE t = "BusinessOffer" /\ choice = 0 ->
                R(-1000, 0, <<TempModifier_new("Business Partnership", f0_9, f1_0, 14)>>, <<>>)
          [] t = "BusinessOffer" /\ choice = 1 -> R(0, 1, <<>>, <<>>)
          [] t = "CharityRequest" /\ choice = 0 -> R(-500, 2, <<>>, <<>>)
          [] t = "CharityRequest" /\ choice = 1 -> R(0, 1, <<>>, << <<"Amazon", -2>> >>)
          [] t = "CharityRequest" /\ choice = 2 -> R(0, -1, <<>>, <<>>)
          [] t = "CompetitorMeeting" /\ choice = 0 ->
                R(0, 0, <<TempModifier_new("Market Collaboration", f1_0, f1_3, 10)>>, <<>>)
          [] t = "CompetitorMeeting" /\ choice = 1 ->
                R(-200, 0, <<TempModifier_new("Price War", f0_85, f0_8, 7)>>, <<>>)
          [] OTHER -> R(0, 0, <<>>, <<>>)

RandomEventManager_new ==
    [active_event |-> <<>>, next_event_in_days |-> 3 + (1 % 5),
     event_history |-> <<>>, player_choice_pending |-> FALSE,
     choice_deadline |-> 0, temp_modifiers |-> <<>>]

\* The 15-entry palette, keyed by day % 15.
RandomEventTemplate(event_type) ==
    CASE event_type = 0 -> RandomEvent_new_auto_event("LoyalCustomer", "Loyal Customer Returns", 2000, 1, 1)
      [] event_type = 1 -> RandomEvent_new_auto_event("SupplierDiscount", "Supplier Discount", 0, 0, 1)
      [] event_type = 2 -> RandomEvent_new_auto_event("MediaAttention", "Positive Media Coverage", 500, 1, 3)
      [] event_type = 3 -> RandomEvent_new_auto_event("LuckyFind", "Inventory Audit Bonus", 800, 0, 1)
      [] event_type = 4 -> RandomEvent_new_auto_event("TechGlitch", "Competitor System Down", 0, 0, 2)
      [] event_type = 5 -> RandomEvent_new_auto_event("CardTheft", "Security Incident", -300, -1, 1)
      [] event_type = 6 -> RandomEvent_new_auto_event("CustomerComplaint", "Customer Complaint", -400, -1, 1)
      [] event_type = 7 -> RandomEvent_new_auto_event("SupplierIssue", "Supplier Price Increase", 0, 0, 5)
      [] event_type = 8 -> RandomEvent_new_auto_event("MarketCrash", "Market Downturn", 0, 0, 4)
      [] event_type = 9 -> RandomEvent_new_auto_event("RegulationChange", "New Regulations", -600, 0, 1)
      [] event_type = 10 -> RandomEvent_new_choice_event("BusinessOffer", "Partnership Proposal",
                                <<"Accept partnership", "Decline and stay independent">>)
      [] event_type = 11 -> RandomEvent_new_choice_event("CharityRequest", "Charity Fundraiser",
                                <<"Donate $500 cash", "Donate 2 Amazon cards", "Politely decline">>)
      [] event_type = 12 -> RandomEvent_new_auto_event("InventoryAudit", "Surprise Inventory Check", -200, 0, 1)
      [] event_type = 13 -> RandomEvent_new_choice_event("CompetitorMeeting", "Competitor Conference",
                                <<"Collaborate for mutual benefit", "Compete aggressively">>)
      [] OTHER -> RandomEvent_new_auto_event("CustomerSurvey", "Customer Feedback Survey", 0, 1, 1)

\* RandomEventManager::generate_random_event: the new event and the manager
\* state it leaves (countdown, history, active_event for a choice event).
Random_generate_random_event(g) ==
    Let(RandomEventTemplate(g.day % 15), LAMBDA event :
    Let(Append(g.random_events.event_history, <<g.day, event.title>>), LAMBDA pushed :
        [event |-> event,
         g |-> [g EXCEPT !.random_events.next_event_in_days = 7 + (g.day % 14),
                         !.random_events.event_history =
                             IF Len(pushed) > HistoryCap THEN Tail(pushed) ELSE pushed,
                         !.random_events.active_event =
                             IF event.auto_resolve THEN @ ELSE <<event>>]]))

\* TempModifier::age_day
TempModifier_age_day(m) ==
    IF m.remaining_days > 0 THEN [m EXCEPT !.remaining_days = @ - 1] ELSE m

\* The retain_mut loop over temp_modifiers: age_day, then drop and log the
\* expired ones.  acc is [kept, log].
RECURSIVE Random_age_modifiers(_, _, _)
Random_age_modifiers(modifiers, i, acc) ==
    IF i > Len(modifiers) THEN acc
    ELSE Let(TempModifier_age_day(modifiers[i]), LAMBDA aged :
         Let(IF aged.remaining_days = 0
             THEN [acc EXCEPT !.log = <<Entry("effect has ended", aged.name, 0)>> \o @]
             ELSE [acc EXCEPT !.kept = Append(@, aged)],
             LAMBDA next : Random_age_modifiers(modifiers, i + 1, next)))

\* Random_force_resolution waiting until the deadline has passed.
Random_force_resolution_late(g) ==
    IF g.random_events.player_choice_pending
       /\ g.day > g.random_events.choice_deadline
       /\ g.random_events.active_event # <<>>
    THEN Let(g.random_events.active_event[1], LAMBDA event :
         Let(apply_choice(event, 0), LAMBDA res :
             LogInsert(
                 [g EXCEPT !.random_events.temp_modifiers = @ \o res.modifiers,
                           !.random_events.player_choice_pending = FALSE,
                           !.random_events.active_event = <<>>],
                 Entry("auto-resolved (no choice made)", event.title, 0))))
    ELSE g

\* The forced resolution of RandomEventManager::process_daily_events: a pending
\* choice whose deadline has come is resolved with choice 0.  The (cash,
\* reputation) parts of the apply_choice result are bound to unused locals.
Random_force_resolution(g) ==
    IF g.random_events.player_choice_pending
       /\ g.day >= g.random_events.choice_deadline
       /\ g.random_events.active_event # <<>>
    THEN Let(g.random_events.active_event[1], LAMBDA event :
         Let(apply_choice(event, 0), LAMBDA res :
             LogInsert(
                 [g EXCEPT !.random_events.temp_modifiers = @ \o res.modifiers,
                           !.random_events.player_choice_pending = FALSE,
                           !.random_events.active_event = <<>>],
                 Entry("auto-resolved (no choice made)", event.title, 0))))
    ELSE g

\* Random_countdown counting down whether or not an event is active.
Random_countdown_while_active(g) ==
    IF g.random_events.next_event_in_days > 0
    THEN [g EXCEPT !.random_events.next_event_in_days = @ - 1]
    ELSE IF g.random_events.active_event = <<>>
    THEN Let(Random_generate_random_event(g), LAMBDA gen :
         Let(LogInsert(gen.g, Entry("Random event", gen.event.title, 0)), LAMBDA g1 :
             IF gen.event.auto_resolve
             THEN Let(apply_choice(gen.event, 0), LAMBDA res :
                      [g1 EXCEPT !.random_events.temp_modifiers = @ \o res.modifiers,
                                 !.random_events.next_event_in_days = 3 + (g.day % 5)])
             ELSE [g1 EXCEPT !.random_events.player_choice_pending = TRUE,
                             !.random_events.choice_deadline = g.day + 2,
                             !.random_events.next_event_in_days = 3 + (g.day % 5),
                             !.random_events.active_event = <<gen.event>>]))
    ELSE g

\* The countdown of RandomEventManager::process_daily_events, followed by the
\* caller's `if let Some(event) = ... { random_events.active_event =
\* Some(event) }` (GameData::process_daily_events).
Random_countdown(g) ==
    IF g.random_events.active_event = <<>> /\ g.random_events.next_event_in_days > 0
    THEN [g EXCEPT !.random_events.next_event_in_days = @ - 1]
    ELSE IF g.random_events.active_event = <<>>
            /\ g.random_events.next_event_in_days = 0
    THEN Let(Random_generate_random_event(g), LAMBDA gen :
         Let(LogInsert(gen.g, Entry("Random event", gen.event.title, 0)), LAMBDA g1 :
             IF gen.event.auto_resolve
             THEN Let(apply_choice(gen.event, 0), LAMBDA res :
                      [g1 EXCEPT !.random_events.temp_modifiers = @ \o res.modifiers,
                                 !.random_events.next_event_in_days = 3 + (g.day % 5)])
             ELSE [g1 EXCEPT !.random_events.player_choice_pending = TRUE,
                             !.random_events.choice_deadline = g.day + 2,
                             !.random_events.next_event_in_days = 3 + (g.day % 5),
                             !.random_events.active_event = <<gen.event>>]))
    ELSE g

\* RandomEventManager::process_daily_events
Random_process_daily_events(g) ==
    Let(Random_age_modifiers(g.random_events.temp_modifiers, 1,
                             [kept |-> <<>>, log |-> g.recent_activities]), LAMBDA aged :
    Let([g EXCEPT !.random_events.temp_modifiers = aged.kept,
                  !.recent_activities = aged.log], LAMBDA g1 :
    Let(Random_force_resolution(g1), LAMBDA g2 :
        Random_countdown(g2))))

\* make_choice putting the produced modifiers on the active list itself, as
\* the forced resolution does, before its caller appends them.
make_choice_extending(g, choice) ==
    IF g.random_events.active_event # <<>>
    THEN Let(apply_choice(g.random_events.active_event[1], choice), LAMBDA res :
             <<[result |-> res,
                g |-> [g EXCEPT !.random_events.player_choice_pending = FALSE,
                                !.random_events.active_event = <<>>,
                                !.random_events.temp_modifiers = @ \o res.modifiers]]>>)
    ELSE <<>>

\* RandomEventManager::make_choice: Some((result, manager state)) or None.
make_choice(g, choice) ==
    IF g.random_events.active_event # <<>>
    THEN <<[result |-> apply_choice(g.random_events.active_event[1], choice),
            g |-> [g EXCEPT !.random_events.player_choice_pending = FALSE,
                            !.random_events.active_event = <<>>]]>>
    ELSE <<>>

(***************************************************************************)
(* GameData.                                                               *)
(***************************************************************************)
GiftCard_new(retailer, denomination, purchase_price, days_until_expiration) ==
    [retailer |-> retailer, denomination |-> denomination,
     purchase_price |-> purchase_price,
     days_until_expiration |-> days_until_expiration]

InventoryItem_new(card, quantity) == [card |-> card, quantity |-> quantity]

InventoryItem_total_cost(item) == item.card.purchase_price * item.quantity

CustomerOrder_total_offered(order) == order.offered_price_per_card * order.quantity

CustomerOrder_is_expired(order) == order.deadline_days = 0

\* available_cards and customer_names of generate_random_order
available_cards ==
    << <<"Amazon", 25>>, <<"Starbucks", 10>>, <<"Target", 50>>,
       <<"iTunes", 15>>, <<"Walmart", 20>> >>

customer_names ==
    <<"Alice", "Bob", "Charlie", "Diana", "Eve", "Frank", "Grace", "Henry">>

\* improve_reputation without the `reputation < 5` guard.
improve_reputation_unguarded(g, reason) ==
    LogTruncate(LogInsert([g EXCEPT !.reputation = @ + 1],
                          Entry("Reputation improved", reason, 0)))

\* GameData::improve_reputation
improve_reputation(g, reason) ==
    IF g.reputation < 5
    THEN LogTruncate(LogInsert([g EXCEPT !.reputation = @ + 1],
                               Entry("Reputation improved", reason, 0)))
    ELSE g

\* GameData::decrease_reputation
decrease_reputation(g, reason) ==
    IF g.reputation > 1
    THEN LogTruncate(LogInsert([g EXCEPT !.reputation = @ - 1],
                               Entry("Reputation damaged", reason, 0)))
    ELSE g

\* The discount fraction of the reputation tier.
discount_percentage(reputation) ==
    CASE reputation = 5 -> f0_95
      [] reputation = 4 -> f0_93
      [] reputation = 3 -> f0_9
      [] reputation = 2 -> f0_87
      [] OTHER          -> f0_85

\* discount_percentage + demand_adjustment, clamped
final_discount(reputation, demand_multiplier) ==
    LET discount == discount_percentage(reputation)
        adjusted == IF FGt(demand_multiplier, f1_2) THEN FAdd(discount, f0_02)
                    ELSE IF FLt(demand_multiplier, f0_8) THEN FSub(discount, f0_03)
                    ELSE discount
    IN  FClamp(adjusted, f0_80, f0_98)

\* order_priority with the thresholds below the denomination.
order_priority_below_face(offered_price, denomination) ==
    IF offered_price + 8 >= denomination THEN "High"
    ELSE IF offered_price + 5 >= denomination THEN "Medium"
    ELSE "Low"

order_priority(offered_price, denomination) ==
    IF offered_price >= denomination + 8 THEN "High"
    ELSE IF offered_price >= denomination + 5 THEN "Medium"
    ELSE "Low"

\* generate_random_order with the new order pushed at the front of the queue.
generate_random_order_at_front(g) ==
    Let(available_cards[((g.day + g.hour) % Len(available_cards)) + 1], LAMBDA card :
    Let(customer_names[((g.next_order_id + g.day) % Len(customer_names)) + 1],
        LAMBDA customer_name :
    Let(get_demand_multiplier(g, card[1]), LAMBDA demand_multiplier :
    Let(FTrunc(FMul(FRatio(card[2], 1),
                    final_discount(g.reputation, demand_multiplier))),
        LAMBDA offered_price :
    Let([id |-> g.next_order_id, customer_name |-> customer_name,
         retailer |-> card[1], denomination |-> card[2],
         quantity |-> 1 + (g.day % 5), offered_price_per_card |-> offered_price,
         deadline_days |-> 2 + (g.day % 5),
         priority |-> order_priority(offered_price, card[2])], LAMBDA order :
        LogTruncate(LogInsert(
            [g EXCEPT !.customer_orders = <<order>> \o @,
                      !.next_order_id = @ + 1],
            Entry("New order", customer_name, order.id))))))))

\* GameData::generate_random_order
generate_random_order(g) ==
    Let(available_cards[((g.day + g.hour) % Len(available_cards)) + 1], LAMBDA card :
    Let(customer_names[((g.next_order_id + g.day) % Len(customer_names)) + 1],
        LAMBDA customer_name :
    Let(get_demand_multiplier(g, card[1]), LAMBDA demand_multiplier :
    Let(FTrunc(FMul(FRatio(card[2], 1),
                    final_discount(g.reputation, demand_multiplier))),
        LAMBDA offered_price :
    Let([id |-> g.next_order_id, customer_name |-> customer_name,
         retailer |-> card[1], denomination |-> card[2],
         quantity |-> 1 + (g.day % 5), offered_price_per_card |-> offered_price,
         deadline_days |-> 2 + (g.day % 5),
         priority |-> order_priority(offered_price, card[2])], LAMBDA order :
        LogTruncate(LogInsert(
            [g EXCEPT !.customer_orders = Append(@, order),
                      !.next_order_id = @ + 1],
            Entry("New order", customer_name, order.id))))))))

\* for _ in 0..n { g = F(g) }, evaluated by halving n so that a long loop
\* does not nest deeply.
RECURSIVE Repeat(_, _, _)
Repeat(F(_), n, g) ==
    IF n = 0 THEN g
    ELSE IF n = 1 THEN F(g)
    ELSE Let(Repeat(F, n \div 2, g), LAMBDA half : Repeat(F, n - (n \div 2), half))

decrease_for_expired_order(g) == decrease_reputation(g, "order_expired")

\* order_chance without the market boost.
order_chance_unboosted(reputation, day, base_demand_modifier) ==
    CASE reputation = 5 -> TRUE
      [] reputation = 4 -> day % 2 = 0
      [] reputation = 3 -> day % 2 = 0
      [] reputation = 2 -> day % 3 = 0
      [] reputation = 1 -> day % 4 = 0
      [] OTHER -> FALSE

\* The reputation-keyed chance OR'd with the market boost, at the end of
\* process_order_aging.
order_chance(reputation, day, base_demand_modifier) ==
    LET base_order_chance ==
            CASE reputation = 5 -> TRUE
              [] reputation = 4 -> day % 2 = 0
              [] reputation = 3 -> day % 2 = 0
              [] reputation = 2 -> day % 3 = 0
              [] reputation = 1 -> day % 4 = 0
              [] OTHER -> FALSE
        market_boost == FGt(base_demand_modifier, f1_0)
        extra_market_chance == market_boost /\ day % 2 = 1
    IN  base_order_chance \/ extra_market_chance

\* The first two loops of process_order_aging: every deadline above 0 drops by
\* one, then the orders at 0 are removed.
age_orders(orders) ==
    SelectSeq([i \in 1..Len(orders) |->
                  IF orders[i].deadline_days > 0
                  THEN [orders[i] EXCEPT !.deadline_days = @ - 1]
                  ELSE orders[i]],
              LAMBDA o : ~CustomerOrder_is_expired(o))

\* penalise_expired with one reputation decrease for the whole batch.
penalise_expired_once(g, expired_count) ==
    IF expired_count > 0
    THEN Let(Repeat(record_expired_order, expired_count, g), LAMBDA g1 :
         Let(LogTruncate(LogInsert(g1,
                 Entry("customer orders expired", "", expired_count))), LAMBDA g2 :
             decrease_for_expired_order(g2)))
    ELSE g

\* The `if expired_count > 0` block of process_order_aging.
penalise_expired(g, expired_count) ==
    IF expired_count > 0
    THEN Let(Repeat(record_expired_order, expired_count, g), LAMBDA g1 :
         Let(LogTruncate(LogInsert(g1,
                 Entry("customer orders expired", "", expired_count))), LAMBDA g2 :
             Repeat(decrease_for_expired_order, expired_count, g2)))
    ELSE g

\* process_order_aging with the order chance taken from the reputation the
\* tick started with.
process_order_aging_chance_first(g) ==
    Let(age_orders(g.customer_orders), LAMBDA kept :
    Let(Len(g.customer_orders) - Len(kept), LAMBDA expired_count :
    Let([g EXCEPT !.customer_orders = kept], LAMBDA g1 :
    Let(penalise_expired(g1, expired_count), LAMBDA g2 :
        IF order_chance(g.reputation, g2.day,
                        g2.market_conditions.base_demand_modifier)
        THEN generate_random_order(g2)
        ELSE g2))))

\* GameData::process_order_aging
process_order_aging(g) ==
    Let(age_orders(g.customer_orders), LAMBDA kept :
    Let(Len(g.customer_orders) - Len(kept), LAMBDA expired_count :
    Let([g EXCEPT !.customer_orders = kept], LAMBDA g1 :
    Let(penalise_expired(g1, expired_count), LAMBDA g2 :
        IF order_chance(g2.reputation, g2.day,
                        g2.market_conditions.base_demand_modifier)
        THEN generate_random_order(g2)
        ELSE g2))))

MatchesOrder(item, order) ==
    item.card.retailer = order.retailer /\ item.card.denomination = order.denomination

\* can_fulfill_order asking only for some matching card, not for the order's
\* quantity.
can_fulfill_order_any(g, order) ==
    SumSeq([i \in 1..Len(g.inventory) |->
               IF MatchesOrder(g.inventory[i], order)
               THEN g.inventory[i].quantity ELSE 0]) >= 1

\* GameData::can_fulfill_order
can_fulfill_order(g, order) ==
    SumSeq([i \in 1..Len(g.inventory) |->
               IF MatchesOrder(g.inventory[i], order)
               THEN g.inventory[i].quantity ELSE 0]) >= order.quantity

\* The consumption loop of fulfill_order together with the removal of the
\* drained entries: matching entries are taken in ledger order until
\* cards_needed reaches 0.  acc is [cards_needed, done].
\* take_cards with the cards_needed bookkeeping lost: every matching lot is
\* removed whole.
take_cards_drained(items, order, i, acc) ==
    SelectSeq(items, LAMBDA item : ~MatchesOrder(item, order))

\* take_cards that leaves a drained lot in the ledger with quantity 0.
RECURSIVE take_cards_keeping(_, _, _, _)
take_cards_keeping(items, order, i, acc) ==
    IF i > Len(items) THEN acc.done
    ELSE IF MatchesOrder(items[i], order) /\ acc.cards_needed > 0
    THEN Let(Min(acc.cards_needed, items[i].quantity), LAMBDA cards_to_take :
         Let([cards_needed |-> acc.cards_needed - cards_to_take,
              done |-> Append(acc.done,
                              [items[i] EXCEPT !.quantity = @ - cards_to_take])],
             LAMBDA next :
                IF next.cards_needed = 0
                THEN next.done \o SubSeq(items, i + 1, Len(items))
                ELSE take_cards_keeping(items, order, i + 1, next)))
    ELSE Let([acc EXCEPT !.done = Append(@, items[i])],
             LAMBDA next : take_cards_keeping(items, order, i + 1, next))

\* take_cards going through the ledger from its last entry to its first.
RECURSIVE take_cards_from_back(_, _, _, _)
take_cards_from_back(items, order, i, acc) ==
    IF i > Len(items) THEN acc.done
    ELSE Let(Len(items) + 1 - i, LAMBDA j :
         IF MatchesOrder(items[j], order) /\ acc.cards_needed > 0
         THEN Let(Min(acc.cards_needed, items[j].quantity), LAMBDA cards_to_take :
              Let([cards_needed |-> acc.cards_needed - cards_to_take,
                   done |-> IF cards_to_take = items[j].quantity THEN acc.done
                            ELSE <<[items[j] EXCEPT !.quantity = @ - cards_to_take]>>
                                     \o acc.done],
                  LAMBDA next :
                     IF next.cards_needed = 0
                     THEN SubSeq(items, 1, j - 1) \o next.done
                     ELSE take_cards_from_back(items, order, i + 1, next)))
         ELSE Let([acc EXCEPT !.done = <<items[j]>> \o @],
                  LAMBDA next : take_cards_from_back(items, order, i + 1, next)))

RECURSIVE take_cards(_, _, _, _)
take_cards(items, order, i, acc) ==
    IF i > Len(items) THEN acc.done
    ELSE IF MatchesOrder(items[i], order) /\ acc.cards_needed > 0
    THEN Let(Min(acc.cards_needed, items[i].quantity), LAMBDA cards_to_take :
         Let([cards_needed |-> acc.cards_needed - cards_to_take,
              done |-> IF cards_to_take = items[i].quantity THEN acc.done
                       ELSE Append(acc.done,
                                   [items[i] EXCEPT !.quantity = @ - cards_to_take])],
             LAMBDA next :
                IF next.cards_needed = 0
                THEN next.done \o SubSeq(items, i + 1, Len(items))
                ELSE take_cards(items, order, i + 1, next)))
    ELSE Let([acc EXCEPT !.done = Append(@, items[i])],
             LAMBDA next : take_cards(items, order, i + 1, next))

\* The success path of fulfill_order for the order at order_index.
complete_order(g, order_index, order) ==
    Let([g EXCEPT !.inventory =
            take_cards(@, order, 1, [cards_needed |-> order.quantity, done |-> <<>>])],
        LAMBDA g1 :
    Let(CustomerOrder_total_offered(order), LAMBDA total_earnings :
    Let(record_sale(g1, total_earnings, order.quantity * (order.denomination - 5),
                    order.quantity), LAMBDA g2 :
    Let([g2 EXCEPT !.cash = @ + total_earnings], LAMBDA g3 :
    Let(record_order_completion(g3), LAMBDA g4 :
    Let(check_order_achievements(g4, g4.analytics.orders_completed, g4.reputation),
        LAMBDA g5 :
    Let(check_cash_achievements(g5), LAMBDA g6 :
    Let([g6 EXCEPT !.customer_orders = RemoveAt(@, order_index + 1)], LAMBDA g7 :
    Let(LogTruncate(LogInsert(g7, Entry("Completed order", order.retailer, order.id))),
        LAMBDA g8 :
        IF order.deadline_days > (2 + (g.day % 5)) \div 2
        THEN improve_reputation(g8, "fast_fulfillment")
        ELSE improve_reputation(g8, "order_fulfilled"))))))))))

\* GameData::fulfill_order; order_index is 0-based.  The result carries the
\* returned bool.
fulfill_order(g, order_index) ==
    IF order_index >= Len(g.customer_orders) THEN [ok |-> FALSE, g |-> g]
    ELSE Let(g.customer_orders[order_index + 1], LAMBDA order :
            IF ~can_fulfill_order(g, order)
            THEN [ok |-> FALSE,
                  g |-> LogTruncate(LogInsert(g,
                            Entry("Cannot fulfill order - insufficient inventory",
                                  "", order.id)))]
            ELSE [ok |-> TRUE, g |-> complete_order(g, order_index, order)])

\* can_afford asking only for some cash, not for the cost.
can_afford_some(g, cost) == g.cash > 0

can_afford(g, cost) == g.cash >= cost

\* GameData::spend_money
spend_money(g, amount) ==
    IF can_afford(g, amount) THEN [ok |-> TRUE, g |-> [g EXCEPT !.cash = @ - amount]]
    ELSE [ok |-> FALSE, g |-> g]

\* merge_index that also compares the days until expiration: only identical
\* cards are merged.
RECURSIVE merge_index_same_card(_, _, _)
merge_index_same_card(inventory, card, i) ==
    IF i > Len(inventory) THEN 0
    ELSE IF inventory[i].card = card THEN i
    ELSE merge_index_same_card(inventory, card, i + 1)

\* The search loop of add_to_inventory: the first entry with the card's
\* retailer, denomination and purchase price, or 0.
RECURSIVE merge_index(_, _, _)
merge_index(inventory, card, i) ==
    IF i > Len(inventory) THEN 0
    ELSE IF inventory[i].card.retailer = card.retailer
            /\ inventory[i].card.denomination = card.denomination
            /\ inventory[i].card.purchase_price = card.purchase_price
    THEN i
    ELSE merge_index(inventory, card, i + 1)

\* GameData::add_to_inventory
add_to_inventory(g, card, quantity) ==
    Let(merge_index(g.inventory, card, 1), LAMBDA i :
        IF i > 0 THEN [g EXCEPT !.inventory[i].quantity = @ + quantity]
        ELSE [g EXCEPT !.inventory = Append(@, InventoryItem_new(card, quantity))])

\* age_inventory with the expired lots counted but left in the ledger.
age_inventory_unremoved(g) ==
    Let([i \in 1..Len(g.inventory) |->
            IF g.inventory[i].card.days_until_expiration > 0
            THEN [g.inventory[i] EXCEPT !.card.days_until_expiration = @ - 1]
            ELSE g.inventory[i]], LAMBDA aged :
    Let(SelectSeq(aged, LAMBDA item : item.card.days_until_expiration = 0),
        LAMBDA expired :
    Let(SumSeq([i \in 1..Len(expired) |-> expired[i].quantity]), LAMBDA expired_count :
    Let([g EXCEPT !.inventory = aged], LAMBDA g1 :
        [expired_count |-> expired_count,
         g |-> IF expired_count > 0
               THEN LogTruncate(LogInsert(record_expired_cards(g1, expired_count),
                        Entry("Lost cards to expiration", "", expired_count)))
               ELSE g1]))))

\* The first part of GameData::process_daily_events: every lot ages by a day,
\* the lots at 0 days are removed and counted.  The result carries the
\* expired_count local (a number of cards) for the achievements step.
age_inventory(g) ==
    Let([i \in 1..Len(g.inventory) |->
            IF g.inventory[i].card.days_until_expiration > 0
            THEN [g.inventory[i] EXCEPT !.card.days_until_expiration = @ - 1]
            ELSE g.inventory[i]], LAMBDA aged :
    Let(SelectSeq(aged, LAMBDA item : item.card.days_until_expiration = 0),
        LAMBDA expired :
    Let(SumSeq([i \in 1..Len(expired) |-> expired[i].quantity]), LAMBDA expired_count :
    Let([g EXCEPT !.inventory =
            SelectSeq(aged, LAMBDA item : item.card.days_until_expiration # 0)],
        LAMBDA g1 :
        [expired_count |-> expired_count,
         g |-> IF expired_count > 0
               THEN LogTruncate(LogInsert(record_expired_cards(g1, expired_count),
                        Entry("Lost cards to expiration", "", expired_count)))
               ELSE g1]))))

\* day_begins without the truncation that ends the tick.
day_begins_untruncated(g) ==
    LogInsert(g, Entry("Day begins", g.market_conditions.current_season, g.day))

\* The "Day begins" entry that ends the tick.
day_begins(g) ==
    LogTruncate(LogInsert(g,
        Entry("Day begins", g.market_conditions.current_season, g.day)))

\* GameData::process_daily_events, the daily tick.  ticks counts its
\* invocations (an observer, not a field of the source).
process_daily_events(g) ==
    Let(age_inventory([g EXCEPT !.ticks = @ + 1]), LAMBDA a :
    Let(process_order_aging(a.g), LAMBDA g1 :
    Let(start_new_day(g1), LAMBDA g2 :
    Let(update_season(g2), LAMBDA g3 :
    Let(Market_process_daily_events(g3), LAMBDA g4 :
    Let(process_daily_achievements(g4, 0, a.expired_count), LAMBDA g5 :
    Let(check_cash_achievements(g5), LAMBDA g6 :
    Let(check_inventory_achievements(g6), LAMBDA g7 :
    Let(check_seasonal_achievements(g7), LAMBDA g8 :
    Let(Random_process_daily_events(g8), LAMBDA g9 :
        day_begins(g9)))))))))))

\* The sample inventory of GameData::new
sample_inventory ==
    << InventoryItem_new(GiftCard_new("Amazon", 25, 20, 45), 12),
       InventoryItem_new(GiftCard_new("Target", 50, 42, 30), 8),
       InventoryItem_new(GiftCard_new("Starbucks", 10, 8, 120), 15),
       InventoryItem_new(GiftCard_new("iTunes", 15, 12, 15), 3),
       InventoryItem_new(GiftCard_new("Walmart", 20, 17, 60), 6) >>

\* GameData::new
GameData_new ==
    Let([cash |-> 5000, reputation |-> 3, day |-> 1, hour |-> 9, minute |-> 0,
         recent_activities |->
            << Entry("Welcome to Gift Card Empire!", "", 0),
               Entry("Starting with $5,000 capital", "", 0),
               Entry("Visit the Market to buy your first cards", "", 0) >>,
         inventory |-> sample_inventory,
         customer_orders |-> <<>>,
         next_order_id |-> 1000,
         analytics |-> BusinessAnalytics_new,
         market_conditions |-> MarketConditions_new,
         achievements |-> AchievementTracker_new,
         random_events |-> RandomEventManager_new,
         ticks |-> 0], LAMBDA g0 :
    Let(generate_random_order(g0), LAMBDA g1 :
        generate_random_order(g1)))

\* The largest u8.  `self.minute += minutes` overflows above it.
U8Max == 255

\* advance_time_from carrying into the day without invoking the daily tick.
advance_time_from_untick(g, sum) ==
    Let(IF sum >= 60
        THEN [g EXCEPT !.hour = @ + (sum \div 60), !.minute = sum % 60]
        ELSE [g EXCEPT !.minute = sum], LAMBDA g1 :
        IF g1.hour >= 24
        THEN [g1 EXCEPT !.day = @ + (g1.hour \div 24), !.hour = g1.hour % 24]
        ELSE g1)

\* GameData::advance_time once `self.minute += minutes` has left sum in minute.
advance_time_from(g, sum) ==
    Let(IF sum >= 60
        THEN [g EXCEPT !.hour = @ + (sum \div 60), !.minute = sum % 60]
        ELSE [g EXCEPT !.minute = sum], LAMBDA g1 :
        IF g1.hour >= 24
        THEN Let([g1 EXCEPT !.day = @ + (g1.hour \div 24), !.hour = g1.hour % 24],
                 process_daily_events)
        ELSE g1)

\* The u8 addition overflows.
advance_overflows(g, minutes) == g.minute + minutes > U8Max

\* GameData::advance_time when the addition does not overflow.
advance_time(g, minutes) == advance_time_from(g, g.minute + minutes)

\* GameData::advance_time when the addition overflows in a build without
\* overflow checks: the sum wraps modulo 256.
advance_time_wrapping(g, minutes) ==
    advance_time_from(g, (g.minute + minutes) % (U8Max + 1))

(***************************************************************************)
(* App commands.  Each is the handler select_menu_item dispatches on its   *)
(* screen, with selected_menu_item as its input.                           *)
(***************************************************************************)
\* (retailer, value, base_cost, stock)
base_market_items ==
    << <<"Amazon", 25, 20, 50>>, <<"Starbucks", 10, 8, 30>>, <<"Target", 50, 42, 15>>,
       <<"iTunes", 15, 12, 25>>, <<"Walmart", 20, 17, 40>> >>

\* actual_cost with the product truncated (`as u32` without round()).
actual_cost_truncated(g, item) ==
    FTrunc(FMul(FRatio(item[3], 1),
                get_price_multiplier_with_random_events(g, item[1])))

\* actual_cost of a market item
actual_cost(g, item) ==
    FRound(FMul(FRatio(item[3], 1),
                get_price_multiplier_with_random_events(g, item[1])))

\* The success path of purchase_from_market, after spend_money.
complete_purchase(g, day, item, purchase_cost) ==
    Let(GiftCard_new(item[1], item[2], purchase_cost, 30 + (day % 60)), LAMBDA card :
    Let(add_to_inventory(g, card, 1), LAMBDA g1 :
    Let(record_purchase(g1, purchase_cost), LAMBDA g2 :
    Let(record_market_purchase(g2,
            get_price_multiplier_with_random_events(g2, item[1])), LAMBDA g3 :
        LogTruncate(LogInsert(g3, Entry("Purchased", item[1], purchase_cost)))))))

\* App::purchase_from_market with selected_menu_item = selected (0-based)
purchase_from_market(g, selected) ==
    IF selected >= Len(base_market_items) THEN g
    ELSE Let(base_market_items[selected + 1], LAMBDA item :
         Let(actual_cost(g, item), LAMBDA purchase_cost :
            IF can_afford(g, purchase_cost)
            THEN Let(spend_money(g, purchase_cost), LAMBDA spent :
                    IF spent.ok
                    THEN complete_purchase(spent.g, g.day, item, purchase_cost)
                    ELSE g)
            ELSE LogTruncate(LogInsert(g,
                    Entry("Insufficient funds", item[1], purchase_cost)))))

\* App::fulfill_customer_order.  The result carries what fulfill_order returned.
fulfill_customer_order(g, selected) ==
    IF g.customer_orders = <<>> THEN [ok |-> FALSE, g |-> g]
    ELSE fulfill_order(g, Min(selected, Len(g.customer_orders) - 1))

\* The cash and reputation impacts of handle_random_event_choice.  cash stays
\* far below u32::MAX, so saturating_add is the plain sum; saturating_sub stops
\* at 0.
\* apply_cash_impact with a plain subtraction in place of saturating_sub.
apply_cash_impact_unsaturated(g, cash) == [g EXCEPT !.cash = @ + cash]

apply_cash_impact(g, cash) ==
    IF cash > 0 THEN [g EXCEPT !.cash = @ + cash]
    ELSE IF cash < 0 THEN [g EXCEPT !.cash = Max(@ - (-cash), 0)]
    ELSE g

apply_reputation_impact(g, reputation) ==
    IF reputation > 0
    THEN [g EXCEPT !.reputation = Min(Min(@ + reputation, U8Max), 5)]
    ELSE IF reputation < 0
    THEN [g EXCEPT !.reputation = Max(Max(@ - (-reputation), 0), 1)]
    ELSE g

\* App::handle_random_event_choice
handle_random_event_choice(g, selected) ==
    Let(make_choice(g, selected), LAMBDA made :
        IF made = <<>> THEN g
        ELSE Let(apply_cash_impact(made[1].g, made[1].result.cash), LAMBDA g1 :
             Let(apply_reputation_impact(g1, made[1].result.reputation), LAMBDA g2 :
             Let([g2 EXCEPT !.random_events.temp_modifiers =
                                @ \o made[1].result.modifiers], LAMBDA g3 :
                 LogTruncate(LogInsert(g3, Entry("Made choice on random event", "", 0)))))))

\* sell_inventory_item paying the lot's purchase price, not 85% of face value.
sell_inventory_item_at_cost(g, selected) ==
    IF g.inventory = <<>> THEN g
    ELSE Let(Min(selected, Len(g.inventory) - 1), LAMBDA inventory_index :
         Let(g.inventory[inventory_index + 1], LAMBDA item :
         Let(item.card.purchase_price * item.quantity, LAMBDA total_value :
         Let([g EXCEPT !.cash = @ + total_value,
                       !.analytics.cards_sold = @ + item.quantity,
                       !.analytics.total_revenue = @ + total_value], LAMBDA g1 :
         Let(LogTruncate(LogInsert(g1, Entry("Sold", item.card.retailer, total_value))),
             LAMBDA g2 :
             [g2 EXCEPT !.inventory = RemoveAt(@, inventory_index + 1)])))))

\* App::sell_inventory_item
sell_inventory_item(g, selected) ==
    IF g.inventory = <<>> THEN g
    ELSE Let(Min(selected, Len(g.inventory) - 1), LAMBDA inventory_index :
         Let(g.inventory[inventory_index + 1], LAMBDA item :
         Let(FTrunc(FMul(FRatio(item.card.denomination, 1), f0_85)) * item.quantity,
             LAMBDA total_value :
         Let([g EXCEPT !.cash = @ + total_value,
                       !.analytics.cards_sold = @ + item.quantity,
                       !.analytics.total_revenue = @ + total_value], LAMBDA g1 :
         Let(LogTruncate(LogInsert(g1, Entry("Sold", item.card.retailer, total_value))),
             LAMBDA g2 :
             [g2 EXCEPT !.inventory = RemoveAt(@, inventory_index + 1)])))))

\* App::toggle_pause: the flag is flipped first, then the new status is logged.
toggle_pause(g, paused) ==
    LogTruncate(LogInsert(g, Entry(IF ~paused THEN "Paused" ELSE "Resumed", "", 0)))

\* A number in the file is its decimal digits, most significant first.
RECURSIVE to_decimal(_)
to_decimal(n) == IF n < 10 THEN <<n>> ELSE Append(to_decimal(n \div 10), n % 10)

\* parse_decimal reading the least significant digit first.
RECURSIVE parse_decimal_reversed(_)
parse_decimal_reversed(digits) ==
    IF digits = <<>> THEN 0
    ELSE parse_decimal_reversed(SubSeq(digits, 2, Len(digits))) * 10 + digits[1]

RECURSIVE parse_decimal(_)
parse_decimal(digits) ==
    IF digits = <<>> THEN 0
    ELSE parse_decimal(SubSeq(digits, 1, Len(digits) - 1)) * 10 + digits[Len(digits)]

\* serde_json::to_string_pretty(&GameData): every field of GameData is
\* serialised under its own name, the unsigned integers of the state, of the
\* ledger and of the order book as decimal text; strings and enum variants are
\* written as they are and a float as the shortest decimal that reads back as
\* the same binary32.  ticks is not a field of GameData and is not in the file.
to_string_pretty(g) ==
    LET card(c) == [c EXCEPT !.denomination = to_decimal(@),
                             !.purchase_price = to_decimal(@),
                             !.days_until_expiration = to_decimal(@)]
        item(it) == [card |-> card(it.card), quantity |-> to_decimal(it.quantity)]
        order(o) == [o EXCEPT !.id = to_decimal(@),
                              !.denomination = to_decimal(@),
                              !.quantity = to_decimal(@),
                              !.offered_price_per_card = to_decimal(@),
                              !.deadline_days = to_decimal(@)]
        fields == [f \in DOMAIN g \ {"ticks"} |-> g[f]]
    IN  [fields EXCEPT !.cash = to_decimal(@),
                       !.reputation = to_decimal(@),
                       !.day = to_decimal(@),
                       !.hour = to_decimal(@),
                       !.minute = to_decimal(@),
                       !.next_order_id = to_decimal(@),
                       !.inventory = [i \in 1..Len(@) |-> item(@[i])],
                       !.customer_orders = [i \in 1..Len(@) |-> order(@[i])]]

\* serde_json::from_str::<GameData>: the fields of the file, the numbers
\* parsed.  ticks goes on counting the process's invocations.
from_str(file, ticks) ==
    LET card(c) == [c EXCEPT !.denomination = parse_decimal(@),
                             !.purchase_price = parse_decimal(@),
                             !.days_until_expiration = parse_decimal(@)]
        item(it) == [card |-> card(it.card), quantity |-> parse_decimal(it.quantity)]
        order(o) == [o EXCEPT !.id = parse_decimal(@),
                              !.denomination = parse_decimal(@),
                              !.quantity = parse_decimal(@),
                              !.offered_price_per_card = parse_decimal(@),
                              !.deadline_days = parse_decimal(@)]
        fields == [f \in DOMAIN file \cup {"ticks"} |->
                      IF f = "ticks" THEN ticks ELSE file[f]]
    IN  [fields EXCEPT !.cash = parse_decimal(@),
                       !.reputation = parse_decimal(@),
                       !.day = parse_decimal(@),
                       !.hour = parse_decimal(@),
                       !.minute = parse_decimal(@),
                       !.next_order_id = parse_decimal(@),
                       !.inventory = [i \in 1..Len(@) |-> item(@[i])],
                       !.customer_orders = [i \in 1..Len(@) |-> order(@[i])]]

\* App::save_game; the file itself is written by GameData::save_game.
save_game(g, written) ==
    LogTruncate(LogInsert(g,
        Entry(IF written THEN "Game saved successfully!" ELSE "Failed to save game",
              "", 0)))

\* load_game taking the file's state even when reading it failed.
load_game_overwriting(g, file, read) ==
    LogTruncate(LogInsert(from_str(file, g.ticks),
        Entry(IF read THEN "Game loaded successfully!" ELSE "Failed to load game", "", 0)))

\* App::load_game
load_game(g, file, read) ==
    IF read
    THEN LogTruncate(LogInsert(from_str(file, g.ticks),
                               Entry("Game loaded successfully!", "", 0)))
    ELSE LogTruncate(LogInsert(g, Entry("Failed to load game", "", 0)))
(***************************************************************************)
(* The state machine.                                                      *)
(*   game_data  the GameData aggregate owned by App                        *)
(*   prev_data  game_data before the last command (observer)               *)
(*   last_op    the last command, its input and what it returned (observer)*)
(*   commands   the number of player commands issued so far (observer)     *)
(*   advances   the number of advance_time calls so far (observer)         *)
(*   paused     App.paused                                                 *)
(*   save_file  savegame.json: <<>> when absent, else <<contents>>         *)
(***************************************************************************)
VARIABLES game_data, prev_data, last_op, commands, advances, paused, save_file

vars == <<game_data, prev_data, last_op, commands, advances, paused, save_file>>

\* Bounds of the exploration: player commands and clock advances per run.
MaxCommands == 2
MaxAdvances == 2

\* App::update_time advances the clock by 20 minutes.
StepMinutes == 20

\* An idle game: update_time until the clock shows 23:40 of the given day, the
\* last step before the tick of the next day.
StepsTo(g, day) ==
    ((day - g.day) * 1440 + (23 * 60 + 40) - (g.hour * 60 + g.minute)) \div StepMinutes

IdleTo(g, day) ==
    Repeat(LAMBDA h : advance_time(h, StepMinutes), Max(StepsTo(g, day), 0), g)

\* One step of a play script: <<"idle", day>>, or <<command, selected, times>>.
PlayStep(g, step) ==
    CASE step[1] = "idle"     -> IdleTo(g, step[2])
      [] step[1] = "purchase" ->
            Repeat(LAMBDA h : purchase_from_market(h, step[2]), step[3], g)
      [] step[1] = "fulfill"  ->
            Repeat(LAMBDA h : fulfill_customer_order(h, step[2]).g, step[3], g)
      [] step[1] = "sell"     ->
            Repeat(LAMBDA h : sell_inventory_item(h, step[2]), step[3], g)
      [] step[1] = "choice"   ->
            Repeat(LAMBDA h : handle_random_event_choice(h, step[2]), step[3], g)

RECURSIVE Play(_, _, _)
Play(g, script, i) ==
    IF i > Len(script) THEN g
    ELSE Let(PlayStep(g, script[i]), LAMBDA next : Play(next, script, i + 1))

\* The games explored.  Each is the state the program is in after the script
\* has been played from GameData::new().
Scripts ==
    << \* a new game
       <<>>,
       \* idle games: the eve of an odd day, of the first expiries, of the
       \* first market and random events, and of an order the inventory
       \* cannot cover
       << <<"idle", 2>> >>,
       << <<"idle", 3>> >>,
       << <<"idle", 5>> >>,
       << <<"idle", 7>> >>,
       \* the eve of the day the iTunes lot expires
       << <<"idle", 15>> >>,
       \* the eve of the last day of the Walmart Expansion of day 6
       << <<"idle", 9>> >>,
       \* the charity request of day 11 left unanswered, on the eve of its
       \* deadline
       << <<"idle", 12>> >>,
       \* nearly all cash spent on Target and Walmart cards, on the eve of the
       \* charity request of day 11
       << <<"purchase", 2, 118>>, <<"purchase", 4, 2>>, <<"idle", 10>> >>,
       \* the Starbucks lot sold and rebought at two prices, with a Starbucks
       \* order open, during the supply chain issues of day 18
       << <<"idle", 16>>, <<"sell", 2, 1>>, <<"purchase", 1, 1>>,
          <<"idle", 18>>, <<"purchase", 1, 2>> >>,
       \* one opening order fulfilled (4 stars), on the eve of an odd day
       << <<"fulfill", 0, 1>>, <<"idle", 2>> >>,
       \* both opening orders fulfilled (5 stars), then left idle
       << <<"fulfill", 0, 2>>, <<"idle", 1>> >>,
       << <<"fulfill", 0, 2>>, <<"idle", 7>> >>,
       \* idle games on the eve of summer and two days into it
       << <<"idle", 90>> >>,
       << <<"idle", 92>> >> >>

StartState(k) == Play(GameData_new, Scripts[k], 1)

Op(op, arg, ret) == [op |-> op, arg |-> arg, ret |-> ret]

Init ==
    /\ \E k \in 1..Len(Scripts) : game_data = StartState(k)
    /\ prev_data = game_data
    /\ last_op = Op("new", 0, "unit")
    /\ commands = 0
    /\ advances = 0
    /\ paused = FALSE
    /\ save_file = <<>>

\* A build with overflow checks panics on a u8 overflow and the process ends.
Running == last_op.ret # "panic"

\* The run loop shows the RandomEvent screen whenever a choice is pending
\* (App::check_for_active_events runs before every key is read), so the Market,
\* Orders and Inventory handlers run only when none is pending.
OnRandomEventScreen == game_data.random_events.player_choice_pending

\* advance_time(minutes) without u8 overflow.  App::update_time returns before
\* the call while the game is paused.
AdvanceTime(m) ==
    /\ Running
    /\ ~paused
    /\ advances < MaxAdvances
    /\ ~advance_overflows(game_data, m)
    /\ game_data' = advance_time(game_data, m)
    /\ prev_data' = game_data
    /\ last_op' = Op("advance", m, "unit")
    /\ advances' = advances + 1
    /\ UNCHANGED <<commands, paused, save_file>>

Purchase(selected) ==
    /\ Running
    /\ commands < MaxCommands
    /\ ~OnRandomEventScreen
    /\ game_data' = purchase_from_market(game_data, selected)
    /\ prev_data' = game_data
    /\ last_op' = Op("purchase", selected, "unit")
    /\ commands' = commands + 1
    /\ UNCHANGED <<advances, paused, save_file>>

Fulfill(selected) ==
    /\ Running
    /\ commands < MaxCommands
    /\ ~OnRandomEventScreen
    /\ \E r \in {fulfill_customer_order(game_data, selected)} :
           /\ game_data' = r.g
           /\ last_op' = Op("fulfill", selected, IF r.ok THEN "true" ELSE "false")
    /\ prev_data' = game_data
    /\ commands' = commands + 1
    /\ UNCHANGED <<advances, paused, save_file>>

Sell(selected) ==
    /\ Running
    /\ commands < MaxCommands
    /\ ~OnRandomEventScreen
    /\ game_data' = sell_inventory_item(game_data, selected)
    /\ prev_data' = game_data
    /\ last_op' = Op("sell", selected, "unit")
    /\ commands' = commands + 1
    /\ UNCHANGED <<advances, paused, save_file>>

Choice(selected) ==
    /\ Running
    /\ commands < MaxCommands
    /\ OnRandomEventScreen
    /\ game_data' = handle_random_event_choice(game_data, selected)
    /\ prev_data' = game_data
    /\ last_op' = Op("choice", selected, "unit")
    /\ commands' = commands + 1
    /\ UNCHANGED <<advances, paused, save_file>>

\* App::toggle_pause on any screen but the main menu
TogglePause ==
    /\ Running
    /\ commands < MaxCommands
    /\ game_data' = toggle_pause(game_data, paused)
    /\ paused' = ~paused
    /\ prev_data' = game_data
    /\ last_op' = Op("pause", 0, "unit")
    /\ commands' = commands + 1
    /\ UNCHANGED <<advances, save_file>>

\* App::save_game, from the dashboard; written says whether fs::write
\* succeeded, which is up to the file system.
SaveGame(written) ==
    /\ Running
    /\ commands < MaxCommands
    /\ ~OnRandomEventScreen
    /\ game_data' = save_game(game_data, written)
    /\ save_file' = IF written THEN <<to_string_pretty(game_data)>> ELSE save_file
    /\ prev_data' = game_data
    /\ last_op' = Op("save", 0, IF written THEN "true" ELSE "false")
    /\ commands' = commands + 1
    /\ UNCHANGED <<advances, paused>>

\* App::load_game, from the main menu, which offers it only when the save file
\* exists; read says whether the file could be read and parsed.
LoadGame(read) ==
    /\ Running
    /\ commands < MaxCommands
    /\ ~OnRandomEventScreen
    /\ save_file # <<>>
    /\ game_data' = load_game(game_data, save_file[1], read)
    /\ prev_data' = game_data
    /\ last_op' = Op("load", 0, IF read THEN "true" ELSE "false")
    /\ commands' = commands + 1
    /\ UNCHANGED <<advances, paused, save_file>>

Next ==
    \/ AdvanceTime(StepMinutes)
    \/ \E selected \in 0..(Len(base_market_items) - 1) : Purchase(selected)
    \/ \E selected \in 0..Max(Len(game_data.customer_orders) - 1, 0) : Fulfill(selected)
    \/ \E selected \in 0..Max(Len(game_data.inventory) - 1, 0) : Sell(selected)
    \/ \E selected \in 0..2 : Choice(selected)
    \/ TogglePause
    \/ \E written \in BOOLEAN : SaveGame(written)
    \/ \E read \in BOOLEAN : LoadGame(read)

Spec == Init /\ [][Next]_vars

(***************************************************************************)
(* The clock alone: advance_time with any u8 argument, from clock          *)
(* positions of the first day.                                             *)
(***************************************************************************)
ClockHours == {9, 16, 22, 23}
ClockMinutes == {0, 1, 20, 40, 59}
ClockInputs == {0, 1, 20, 59, 60, 100, 197, 240, 255}

\* The new game advanced, a minute at a time, to hour:minute of day 1.
ClockAt(hour, minute) ==
    Repeat(LAMBDA h : advance_time(h, 1), (hour - 9) * 60 + minute, GameData_new)

InitClock ==
    /\ \E hour \in ClockHours, minute \in ClockMinutes :
           game_data = ClockAt(hour, minute)
    /\ prev_data = game_data
    /\ last_op = Op("new", 0, "unit")
    /\ commands = 0
    /\ advances = 0
    /\ paused = FALSE
    /\ save_file = <<>>

\* advance_time(minutes) when the u8 addition overflows, in a build without
\* overflow checks
AdvanceWrap(m) ==
    /\ Running
    /\ advances < MaxAdvances
    /\ advance_overflows(game_data, m)
    /\ game_data' = advance_time_wrapping(game_data, m)
    /\ prev_data' = game_data
    /\ last_op' = Op("advance", m, "wrapped")
    /\ advances' = advances + 1
    /\ UNCHANGED <<commands, paused, save_file>>

\* advance_time(minutes) when the u8 addition overflows, in a build with
\* overflow checks: the addition panics before anything is written
AdvancePanic(m) ==
    /\ Running
    /\ advances < MaxAdvances
    /\ advance_overflows(game_data, m)
    /\ prev_data' = game_data
    /\ last_op' = Op("advance", m, "panic")
    /\ advances' = advances + 1
    /\ UNCHANGED <<game_data, commands, paused, save_file>>

NextClock ==
    \/ \E m \in ClockInputs : AdvanceTime(m)
    \/ \E m \in ClockInputs : AdvanceWrap(m)
    \/ \E m \in ClockInputs : AdvancePanic(m)

SpecClock == InitClock /\ [][NextClock]_vars

(***************************************************************************)
(* A year of play: the same commands, from idle games on the eve of each   *)
(* change of season and of an unanswered choice.                           *)
(***************************************************************************)
YearScripts ==
    << \* the choice event of day 11: the eves of its firing, of the day after
       \* and of its deadline
       << <<"idle", 10>> >>,
       << <<"idle", 11>> >>,
       << <<"idle", 12>> >>,
       \* the Charity Fundraiser pending with $10 at hand
       << <<"purchase", 2, 118>>, <<"purchase", 4, 2>>, <<"idle", 11>> >>,
       \* the Starbucks lot sold and rebought at two prices, with a Starbucks
       \* order open, during the supply chain issues of day 18
       << <<"idle", 16>>, <<"sell", 2, 1>>, <<"purchase", 1, 1>>,
          <<"idle", 18>>, <<"purchase", 1, 2>> >>,
       \* the Partnership Proposal of day 55 pending
       << <<"idle", 55>> >>,
       << <<"idle", 90>> >>,
       << <<"idle", 128>> >>,
       << <<"idle", 180>> >>,
       << <<"idle", 270>> >>,
       << <<"idle", 360>> >>,
       \* three stars on the eve of day 92, in summer: the Walmart order served
       \* on day 89 and the Amazon order of day 90 served on day 91
       << <<"idle", 89>>, <<"purchase", 4, 5>>, <<"fulfill", 0, 1>>,
          <<"idle", 91>>, <<"purchase", 0, 1>>, <<"fulfill", 1, 1>> >> >>

InitYear ==
    /\ \E k \in 1..Len(YearScripts) : game_data = Play(GameData_new, YearScripts[k], 1)
    /\ prev_data = game_data
    /\ last_op = Op("new", 0, "unit")
    /\ commands = 0
    /\ advances = 0
    /\ paused = FALSE
    /\ save_file = <<>>

SpecYear == InitYear /\ [][Next]_vars

(***************************************************************************)
(* Properties.  Each is stated over the command last issued (last_op), the *)
(* state before it (prev_data) and the state after it (game_data).         *)
(***************************************************************************)
\* The total quantity of the inventory entries of (retailer, denomination).
MatchingQuantity(inventory, retailer, denomination) ==
    SumSeq([i \in 1..Len(inventory) |->
               IF inventory[i].card.retailer = retailer
                  /\ inventory[i].card.denomination = denomination
               THEN inventory[i].quantity ELSE 0])

\* The inventory entries of any other retailer or denomination, in order.
OtherEntries(inventory, retailer, denomination) ==
    SelectSeq(inventory, LAMBDA item :
        ~(item.card.retailer = retailer /\ item.card.denomination = denomination))

\* The total number of cards in the inventory.
TotalCards(inventory) == SumSeq([i \in 1..Len(inventory) |-> inventory[i].quantity])

\* The order a fulfill command was issued on.
SelectedOrder == prev_data.customer_orders[last_op.arg + 1]

FulfillReturned(ret) == last_op.op = "fulfill" /\ last_op.ret = ret

\* C1: a fulfill that returns true on order O (quantity q, offered price p per
\* card) removes exactly O from the order book, adds exactly q*p to cash,
\* lowers the total quantity of the inventory entries of O's (retailer,
\* denomination) by exactly q, and leaves the entries of any other retailer
\* or denomination as they were.
C1_FulfillSuccess ==
    FulfillReturned("true") =>
        /\ last_op.arg < Len(prev_data.customer_orders)
        /\ game_data.customer_orders =
               RemoveAt(prev_data.customer_orders, last_op.arg + 1)
        /\ game_data.cash =
               prev_data.cash
                 + SelectedOrder.quantity * SelectedOrder.offered_price_per_card
        /\ MatchingQuantity(game_data.inventory, SelectedOrder.retailer,
                            SelectedOrder.denomination)
             = MatchingQuantity(prev_data.inventory, SelectedOrder.retailer,
                                SelectedOrder.denomination)
                 - SelectedOrder.quantity
        /\ OtherEntries(game_data.inventory, SelectedOrder.retailer,
                        SelectedOrder.denomination)
             = OtherEntries(prev_data.inventory, SelectedOrder.retailer,
                            SelectedOrder.denomination)

\* A fulfill returned true on an order that took cards from two lots: the
\* first matching lot held fewer cards than the order asked for.
C1_Witness ==
    /\ FulfillReturned("true")
    /\ \E i \in 1..Len(prev_data.inventory) :
          /\ MatchesOrder(prev_data.inventory[i], SelectedOrder)
          /\ \A j \in 1..(i - 1) : ~MatchesOrder(prev_data.inventory[j], SelectedOrder)
          /\ prev_data.inventory[i].quantity < SelectedOrder.quantity
    /\ Len(game_data.inventory) = Len(prev_data.inventory) - 1

\* The activity log after entry has been inserted at its front: the newest
\* LogCap entries are kept.
LogWith(log, entry) == Truncate(<<entry>> \o log, LogCap)

\* The matching inventory of the order a fulfill command was issued on does
\* not cover its quantity.
FulfillShort ==
    /\ last_op.op = "fulfill"
    /\ last_op.arg < Len(prev_data.customer_orders)
    /\ MatchingQuantity(prev_data.inventory, SelectedOrder.retailer,
                        SelectedOrder.denomination) < SelectedOrder.quantity

\* C2: fulfill on an order whose matching (retailer, denomination) inventory
\* total is below the order quantity returns false, and the state after it is
\* the state before it with one failure entry put at the front of the
\* activity log: cash, inventory, order book, reputation, analytics and
\* achievements are as before.
C2_FulfillInsufficient ==
    FulfillShort =>
        /\ last_op.ret = "false"
        /\ game_data =
              [prev_data EXCEPT !.recent_activities =
                  LogWith(@, Entry("Cannot fulfill order - insufficient inventory",
                                   "", SelectedOrder.id))]

\* A fulfill was refused on an order that some, but not enough, matching
\* cards were in stock for.
C2_Witness ==
    /\ FulfillShort
    /\ MatchingQuantity(prev_data.inventory, SelectedOrder.retailer,
                        SelectedOrder.denomination) > 0
    /\ last_op.ret = "false"
    /\ game_data.recent_activities # prev_data.recent_activities

\* C3: in every state reached by daily ticks, fulfillments (each +1), order
\* expirations (each -1) and resolved random-event choices (deltas from -2 to
\* +2), reputation is an integer from 1 to 5.
C3_ReputationInRange == game_data.reputation \in 1..5

\* A change that would have left the range was held at its end: an order was
\* fulfilled at 5 stars and reputation stayed at 5.
C3_Witness ==
    /\ FulfillReturned("true")
    /\ prev_data.reputation = 5
    /\ game_data.reputation = 5

\* The market item a purchase command was issued on, and the price asked.
SelectedItem == base_market_items[last_op.arg + 1]

AskedPrice == actual_cost(prev_data, SelectedItem)

\* The cash delta of the option a choice command picked.
ChosenCashDelta ==
    apply_choice(prev_data.random_events.active_event[1], last_op.arg).cash

\* A purchase that asks more than the cash at hand.
PurchaseUnaffordable == last_op.op = "purchase" /\ AskedPrice > prev_data.cash

\* A resolved choice whose option costs cash.
ChoiceCosts ==
    /\ last_op.op = "choice"
    /\ prev_data.random_events.active_event # <<>>
    /\ ChosenCashDelta < 0

\* C4 as stated: cash is never negative, and a command that deducts an amount
\* above the current cash (a purchase, or a resolved choice whose option has a
\* negative cash delta) is refused and leaves cash unchanged.
C4_SpendRefused ==
    /\ game_data.cash >= 0
    /\ PurchaseUnaffordable => game_data.cash = prev_data.cash
    /\ (ChoiceCosts /\ -ChosenCashDelta > prev_data.cash) =>
           game_data.cash = prev_data.cash

\* C4 amended: cash is never negative; a purchase that asks more than the
\* current cash is refused and leaves cash unchanged; a resolved choice whose
\* option costs a is never refused: it leaves cash - a, or 0 when a is above
\* the current cash.
C4_CashNeverNegative ==
    /\ game_data.cash >= 0
    /\ PurchaseUnaffordable => game_data.cash = prev_data.cash
    /\ ChoiceCosts =>
           game_data.cash = Max(prev_data.cash + ChosenCashDelta, 0)

\* A choice that costs more than the cash at hand was resolved.
C4_Witness ==
    /\ ChoiceCosts
    /\ -ChosenCashDelta > prev_data.cash
    /\ prev_data.cash > 0
    /\ game_data.cash = 0
    /\ ~game_data.random_events.player_choice_pending

\* C5: a purchase whose price exceeds the current cash fails softly: the state
\* after it is the state before it with exactly one 'insufficient funds'
\* entry put at the front of the activity log, so cash, inventory, analytics
\* (total_purchases) and the achievement counters are as before.
C5_PurchaseInsufficientFunds ==
    PurchaseUnaffordable =>
        game_data =
            [prev_data EXCEPT !.recent_activities =
                LogWith(@, Entry("Insufficient funds", SelectedItem[1], AskedPrice))]

\* A purchase was refused for lack of cash while some cash was at hand.
C5_Witness ==
    /\ PurchaseUnaffordable
    /\ prev_data.cash > 0
    /\ Head(game_data.recent_activities).msg = "Insufficient funds"
    /\ game_data.inventory = prev_data.inventory

\* base * multiplier rounded to the nearest integer, halves away from zero,
\* in exact arithmetic: the multiplier <<m, e>> is the number m * 2^e.
RoundedProduct(base, multiplier) ==
    IF multiplier[2] >= 0 THEN base * multiplier[1] * Pow2(multiplier[2])
    ELSE (base * multiplier[1] + Pow2(-multiplier[2] - 1)) \div Pow2(-multiplier[2])

\* The price of the market item a purchase command was issued on.
RoundedPrice ==
    RoundedProduct(SelectedItem[3],
        get_price_multiplier_with_random_events(prev_data, SelectedItem[1]))

PurchaseAffordable == last_op.op = "purchase" /\ RoundedPrice <= prev_data.cash

\* C6: a successful purchase of market item (retailer, denomination, base
\* cost) charges price = round(base cost * price_multiplier_with_random_events
\* (retailer)): cash falls by exactly that price, total_purchases rises by the
\* same amount, and the inventory holds exactly one card more, of that
\* retailer and denomination, in a new lot or merged into an existing one.
C6_PurchaseSuccess ==
    PurchaseAffordable =>
        /\ game_data.cash = prev_data.cash - RoundedPrice
        /\ game_data.analytics.total_purchases =
               prev_data.analytics.total_purchases + RoundedPrice
        /\ TotalCards(game_data.inventory) = TotalCards(prev_data.inventory) + 1
        /\ MatchingQuantity(game_data.inventory, SelectedItem[1], SelectedItem[2])
             = MatchingQuantity(prev_data.inventory, SelectedItem[1],
                                SelectedItem[2]) + 1
        /\ Len(game_data.inventory) \in
               {Len(prev_data.inventory), Len(prev_data.inventory) + 1}

\* A purchase succeeded at a price that rounding up decided: the product of
\* base cost and multiplier has a fraction of at least one half.
C6_Witness ==
    /\ PurchaseAffordable
    /\ RoundedPrice > FTrunc(FMul(FRatio(SelectedItem[3], 1),
           get_price_multiplier_with_random_events(prev_data, SelectedItem[1])))
    /\ game_data.cash = prev_data.cash - RoundedPrice
    /\ Len(game_data.inventory) = Len(prev_data.inventory) + 1

\* The last command was an advance that invoked the daily tick.
Ticked == last_op.op = "advance" /\ game_data.ticks = prev_data.ticks + 1

\* The orders that expire in the next tick, and how many they are.
Expiring(orders) == {i \in 1..Len(orders) : orders[i].deadline_days <= 1}

ExpiredInTick == Cardinality(Expiring(prev_data.customer_orders))

\* The orders that outlive the next tick, a day older, in their order.
Survivors(orders) ==
    LET kept == SelectSeq(orders, LAMBDA o : o.deadline_days > 1)
    IN  [i \in 1..Len(kept) |-> [kept[i] EXCEPT !.deadline_days = @ - 1]]

\* The reputation the tick's expiry penalties leave.
ReputationAfterExpiry == Max(1, prev_data.reputation - ExpiredInTick)

\* The reputation-keyed rule and the market boost of order generation.
ReputationRule(reputation, day) ==
    \/ reputation = 5
    \/ reputation \in {3, 4} /\ day % 2 = 0
    \/ reputation = 2 /\ day % 3 = 0
    \/ reputation = 1 /\ day % 4 = 0

MarketBoost(base_demand_modifier, day) ==
    FGt(base_demand_modifier, f1_0) /\ day % 2 = 1

\* The tick generated an order.
OrderGenerated == game_data.next_order_id > prev_data.next_order_id

\* C7: the steps of a daily tick run in the fixed order inventory aging, order
\* aging then order generation, analytics day roll, season and market-event
\* update, achievement checks, random-event manager tick, 'day begins' entry.
\* Observably: a tick generates an order exactly when the rule holds of the
\* reputation left by that tick's expiry penalties and the boost holds of the
\* base demand modifier from before that tick's season update, and after the
\* tick the newest activity-log entry is the 'day begins' entry of the new
\* day and its season.
C7_TickOrder ==
    Ticked =>
        /\ OrderGenerated <=>
              \/ ReputationRule(ReputationAfterExpiry, game_data.day)
              \/ MarketBoost(prev_data.market_conditions.base_demand_modifier,
                             game_data.day)
        /\ Head(game_data.recent_activities) =
              Entry("Day begins", game_data.market_conditions.current_season,
                    game_data.day)

\* A tick whose expiry penalty changed the outcome of order generation: the
\* rule holds of the reputation the tick started with, not of the reputation
\* left after the penalty, and no order was generated.
C7_Witness ==
    /\ Ticked
    /\ ExpiredInTick > 0
    /\ ReputationRule(prev_data.reputation, game_data.day)
    /\ ~ReputationRule(ReputationAfterExpiry, game_data.day)
    /\ ~OrderGenerated
    /\ Head(game_data.recent_activities).msg = "Day begins"

\* C9: in a daily tick every order's deadline drops by 1 and exactly the k
\* orders that reach 0 are removed; orders_expired rises by k and reputation
\* is lowered once per removed order, ending at max(1, reputation - k).  The
\* orders with deadline left stay at the front of the book in their original
\* relative order (an order the tick generates comes after them).
C9_OrderExpiry ==
    Ticked =>
        /\ Len(game_data.customer_orders) >= Len(Survivors(prev_data.customer_orders))
        /\ SubSeq(game_data.customer_orders, 1,
                  Len(Survivors(prev_data.customer_orders)))
             = Survivors(prev_data.customer_orders)
        /\ \A i \in (Len(Survivors(prev_data.customer_orders)) + 1)
                      ..Len(game_data.customer_orders) :
               game_data.customer_orders[i].id >= prev_data.next_order_id
        /\ game_data.analytics.orders_expired =
               prev_data.analytics.orders_expired + ExpiredInTick
        /\ game_data.reputation = ReputationAfterExpiry

\* A tick removed two of several orders, kept another a day older, and the
\* two penalties took reputation down by two.
C9_Witness ==
    /\ Ticked
    /\ ExpiredInTick = 2
    /\ Len(Survivors(prev_data.customer_orders)) >= 1
    /\ prev_data.reputation >= 3
    /\ game_data.reputation = prev_data.reputation - 2
    /\ game_data.analytics.orders_expired = prev_data.analytics.orders_expired + 2

\* The number of orders a tick added to the book.
OrdersAdded ==
    Len(game_data.customer_orders) - Len(Survivors(prev_data.customer_orders))

\* C10: a daily tick generates at most one new order, and generates one
\* exactly when the reputation-keyed rule holds (reputation 5: every day; 4
\* or 3: day even; 2: day mod 3 = 0; 1: day mod 4 = 0) or the market boost
\* holds (base demand modifier > 1.0 and day odd).  The day is the day the
\* tick begins, the reputation and the modifier are the ones order generation
\* reads.
C10_OrderGeneration ==
    Ticked =>
        /\ OrdersAdded \in {0, 1}
        /\ game_data.next_order_id = prev_data.next_order_id + OrdersAdded
        /\ OrdersAdded = 1 <=>
              \/ ReputationRule(ReputationAfterExpiry, game_data.day)
              \/ MarketBoost(prev_data.market_conditions.base_demand_modifier,
                             game_data.day)

\* A tick generated an order by the market boost alone: the rule does not
\* hold of the reputation, the season's modifier is above 1.0 and the day is
\* odd.
C10_Witness ==
    /\ Ticked
    /\ OrdersAdded = 1
    /\ ~ReputationRule(ReputationAfterExpiry, game_data.day)
    /\ MarketBoost(prev_data.market_conditions.base_demand_modifier, game_data.day)

\* The number of daily ticks the last command invoked.
TicksInvoked == game_data.ticks - prev_data.ticks

\* The hour counter crossed 24 in the last command: it went round to a
\* smaller hour (one advance carries at most 5 hours).
HourCrossed24 == game_data.hour < prev_data.hour

\* C8: for every advance(minutes) from a state with minute < 60 and hour <
\* 24, the daily tick is invoked exactly once if the hour counter crosses 24
\* in that call and not at all otherwise, and the day number rises by exactly
\* the number of ticks invoked (0 or 1).
C8_TickPerAdvance ==
    (last_op.op = "advance" /\ prev_data.minute < 60 /\ prev_data.hour < 24) =>
        /\ TicksInvoked = (IF HourCrossed24 THEN 1 ELSE 0)
        /\ game_data.day = prev_data.day + TicksInvoked

\* An advance from late in the day carried more than one hour, crossed 24 and
\* invoked the tick once.
C8_Witness ==
    /\ last_op.op = "advance"
    /\ last_op.arg >= 120
    /\ prev_data.hour >= 22
    /\ HourCrossed24
    /\ TicksInvoked = 1
    /\ game_data.day = prev_data.day + 1

\* The lots that outlive the next tick, a day older, in their order.
AgedLots(inventory) ==
    LET kept == SelectSeq(inventory, LAMBDA item : item.card.days_until_expiration > 1)
    IN  [i \in 1..Len(kept) |->
            [kept[i] EXCEPT !.card.days_until_expiration = @ - 1]]

\* The number of cards in the lots that expire in the next tick.
CardsExpiring(inventory) ==
    TotalCards(SelectSeq(inventory, LAMBDA item : item.card.days_until_expiration <= 1))

\* C11: a daily tick lowers every lot's days-until-expiration by 1, removes
\* exactly the lots that reach 0 and adds the sum of their quantities to
\* cards_expired; and in every state, after a tick or a command, every lot in
\* the ledger has days-until-expiration >= 1.
C11_InventoryAging ==
    /\ \A i \in 1..Len(game_data.inventory) :
           game_data.inventory[i].card.days_until_expiration >= 1
    /\ Ticked =>
           /\ game_data.inventory = AgedLots(prev_data.inventory)
           /\ game_data.analytics.cards_expired =
                  prev_data.analytics.cards_expired
                    + CardsExpiring(prev_data.inventory)

\* A tick removed a lot that reached 0 days, counted its cards and kept the
\* other lots.
C11_Witness ==
    /\ Ticked
    /\ CardsExpiring(prev_data.inventory) > 0
    /\ Len(game_data.inventory) < Len(prev_data.inventory)
    /\ game_data.inventory # <<>>
    /\ game_data.analytics.cards_expired > prev_data.analytics.cards_expired

\* The narrative event the tick of the current day fires, when it fires one.
FiredEvent == RandomEventTemplate(game_data.day % 15)

\* The last command was a tick in which a narrative random event fired.
EventFired ==
    /\ Ticked
    /\ game_data.random_events.event_history # prev_data.random_events.event_history

\* reputation moved by delta and held in [1, 5].
ClampedReputation(reputation, delta) == Min(5, Max(1, reputation + delta))

\* C12: when an auto-resolving narrative random event fires in a daily tick,
\* its effect is applied in that tick: cash changes by the event's cash impact
\* and reputation by its reputation impact (held in [1, 5]), and afterwards
\* no event is pending.
C12_AutoEventApplied ==
    (EventFired /\ FiredEvent.auto_resolve) =>
        /\ game_data.cash = Max(prev_data.cash + FiredEvent.cash_impact, 0)
        /\ game_data.reputation =
               ClampedReputation(ReputationAfterExpiry, FiredEvent.reputation_impact)
        /\ ~game_data.random_events.player_choice_pending
        /\ game_data.random_events.active_event = <<>>

\* The last command was a tick that found a choice event pending at its
\* deadline.
ForcedResolution ==
    /\ Ticked
    /\ prev_data.random_events.player_choice_pending
    /\ prev_data.random_events.active_event # <<>>
    /\ game_data.day >= prev_data.random_events.choice_deadline

\* What choice 0 of the event pending before the last command gives.
ChoiceZero == apply_choice(prev_data.random_events.active_event[1], 0)

\* The last n elements of a sequence.
Suffix(s, n) == SubSeq(s, Len(s) - n + 1, Len(s))

\* C13: a pending choice event that reaches its deadline is force-resolved by
\* the tick with choice 0, with the effects resolve_choice(0) has: the same
\* cash delta, the same reputation delta and the same temp modifiers are
\* applied, and the pending state is cleared.
C13_ForcedResolutionAsChoiceZero ==
    ForcedResolution =>
        /\ game_data.cash = apply_cash_impact(prev_data, ChoiceZero.cash).cash
        /\ game_data.reputation =
               ClampedReputation(ReputationAfterExpiry, ChoiceZero.reputation)
        /\ Len(game_data.random_events.temp_modifiers) >= Len(ChoiceZero.modifiers)
        /\ Suffix(game_data.random_events.temp_modifiers, Len(ChoiceZero.modifiers))
               = ChoiceZero.modifiers
        /\ ~game_data.random_events.player_choice_pending
        /\ game_data.random_events.active_event = <<>>

\* The last command was a tick in which the market engine's countdown had
\* elapsed, so that it generated a market event and reseeded the countdown.
MarketEventFired ==
    /\ Ticked
    /\ prev_data.market_conditions.next_event_in_days = 0

\* C14: after a narrative random event fires in the tick of day d, the
\* random-event manager's countdown to the next event is reseeded to
\* 7 + (d mod 14), a value in 7..20, independently of the market engine's
\* countdown, which is reseeded to 5 + (d mod 10), a value in 5..14.
C14_CountdownReseeded ==
    /\ EventFired =>
           /\ game_data.random_events.next_event_in_days = 7 + (game_data.day % 14)
           /\ game_data.random_events.next_event_in_days \in 7..20
    /\ MarketEventFired =>
           /\ game_data.market_conditions.next_event_in_days = 5 + (game_data.day % 10)
           /\ game_data.market_conditions.next_event_in_days \in 5..14

\* The market events that outlive a tick according to their remaining
\* duration: those with more than one day left, one day older.
AgedEvents(events) ==
    LET kept == SelectSeq(events, LAMBDA event : event.remaining_days > 1)
    IN  [i \in 1..Len(kept) |-> [kept[i] EXCEPT !.remaining_days = @ - 1]]

\* The log holds the 'ended' line of the market event of that name.
EndedLogged(log, name) ==
    \E i \in 1..Len(log) : log[i] = Entry("Market event has ended", name, 0)

\* C15: a market event whose remaining duration is 1 at the start of a daily
\* tick is removed from the active list by that tick, and an 'ended' log line
\* for it is appended in that tick; an event with remaining duration 0 is
\* never left in the active list after a tick.
C15_MarketEventEnds ==
    /\ Ticked =>
           /\ Len(game_data.market_conditions.active_events)
                  >= Len(AgedEvents(prev_data.market_conditions.active_events))
           /\ SubSeq(game_data.market_conditions.active_events, 1,
                     Len(AgedEvents(prev_data.market_conditions.active_events)))
                  = AgedEvents(prev_data.market_conditions.active_events)
           /\ \A i \in 1..Len(prev_data.market_conditions.active_events) :
                  prev_data.market_conditions.active_events[i].remaining_days = 1 =>
                      EndedLogged(game_data.recent_activities,
                                  prev_data.market_conditions.active_events[i].name)
    /\ \A i \in 1..Len(game_data.market_conditions.active_events) :
           game_data.market_conditions.active_events[i].remaining_days > 0

\* The achievements of a game.
Achievements(g) == g.achievements.achievements

\* Nothing unlocked in before is locked or re-dated in after, and no stored
\* progress is lower in after.
Monotonic(before, after) ==
    \A t \in AchievementTypes :
        /\ before[t].unlocked =>
               /\ after[t].unlocked
               /\ after[t].unlock_date = before[t].unlock_date
        /\ after[t].progress >= before[t].progress

\* The last command was load_game and the save file was read.
Loaded == last_op.op = "load" /\ last_op.ret = "true"

\* C16 as stated: achievement unlocking is monotonic over every sequence of
\* operations: once an achievement's unlocked flag is true it is never reset
\* to false, its unlock day never changes, and every achievement's stored
\* progress never decreases.
C16_MonotonicEverywhere ==
    Monotonic(Achievements(prev_data), Achievements(game_data))

\* C16: over every operation but a load_game that read the save file,
\* achievement unlocking is monotonic: an unlocked achievement stays unlocked
\* with its unlock day, and no stored progress decreases.  A load_game that
\* read the save file replaces the achievements by the saved ones.
C16_AchievementsMonotonic ==
    IF Loaded
    THEN Achievements(game_data) = save_file[1].achievements.achievements
    ELSE Monotonic(Achievements(prev_data), Achievements(game_data))

\* A second order is fulfilled after FirstSale was unlocked: check_and_unlock
\* is called for FirstSale with progress 2 and leaves it as it was.
C16_Witness ==
    /\ FulfillReturned("true")
    /\ Achievements(prev_data)["FirstSale"].unlocked
    /\ Achievements(game_data)["FirstSale"] = Achievements(prev_data)["FirstSale"]
    /\ Achievements(game_data)["FirstSale"].progress < game_data.analytics.orders_completed
    /\ Achievements(game_data)["EarlyBird"].progress = game_data.analytics.orders_completed

\* The achievements the last command unlocked.
NewlyUnlocked ==
    {t \in AchievementTypes :
        Achievements(game_data)[t].unlocked /\ ~Achievements(prev_data)[t].unlocked}

\* The cash rewards of a set of achievements, added up.
RECURSIVE SumRewards(_)
SumRewards(types) ==
    IF types = {} THEN 0
    ELSE LET t == CHOOSE u \in types : TRUE
         IN  Achievement_reward(t) + SumRewards(types \ {t})

\* What the last command itself pays: nothing for a tick, the order's price
\* for a fulfilled order.
CommandEarnings ==
    IF FulfillReturned("true")
    THEN SelectedOrder.quantity * SelectedOrder.offered_price_per_card
    ELSE 0

\* C17: when an achievement is unlocked, its cash reward (the amount shown as
\* '+$reward' in the unlock log line) is credited to the player's cash.  Stated
\* for the commands whose own effect on cash is settled: a fulfilled order,
\* and a tick in which no narrative event fires or is force-resolved.
C17_RewardCredited ==
    (/\ NewlyUnlocked # {}
     /\ \/ FulfillReturned("true")
        \/ Ticked /\ ~EventFired /\ ~ForcedResolution) =>
        game_data.cash = prev_data.cash + CommandEarnings + SumRewards(NewlyUnlocked)

\* C18: after every operation (daily tick, purchase, fulfill, sell,
\* resolve_choice, save, load, pause toggle) the activity log holds at most
\* LogCap = 10 entries, even when the operation inserts several entries
\* before truncating.
C18_LogBounded == Len(game_data.recent_activities) <= LogCap

\* A tick that found the log full and inserted at least the start of a market
\* event, a narrative random event and the day's opening line: the oldest
\* entries are gone and the rest of the log is the front of the old one.
C18_Witness ==
    /\ Ticked /\ MarketEventFired /\ EventFired
    /\ Len(prev_data.recent_activities) = LogCap
    /\ Len(game_data.recent_activities) = LogCap
    /\ game_data.recent_activities[1].msg = "Day begins"
    /\ \E inserted \in 3..(LogCap - 1) :
           /\ \E i, j \in 2..inserted :
                  /\ game_data.recent_activities[i].msg = "Random event"
                  /\ game_data.recent_activities[j].msg = "New market event"
           /\ SubSeq(game_data.recent_activities, inserted + 1, LogCap)
                  = SubSeq(prev_data.recent_activities, 1, LogCap - inserted)

\* The lots a fulfilled order drains: the lots of its (retailer, denomination)
\* are taken in ledger order, so a lot is drained when the lots up to and
\* including it hold no more cards than the order asks for.
DrainedLots ==
    {i \in 1..Len(prev_data.inventory) :
        /\ MatchesOrder(prev_data.inventory[i], SelectedOrder)
        /\ MatchingQuantity(SubSeq(prev_data.inventory, 1, i), SelectedOrder.retailer,
                            SelectedOrder.denomination) <= SelectedOrder.quantity}

\* C19: in every reachable state every entry of the inventory ledger has
\* quantity > 0; a fulfillment removes an entry exactly when it drains it,
\* and no operation leaves an entry with quantity 0.
C19_QuantityPositive ==
    /\ \A i \in 1..Len(game_data.inventory) : game_data.inventory[i].quantity > 0
    /\ FulfillReturned("true") =>
           Len(game_data.inventory) = Len(prev_data.inventory) - Cardinality(DrainedLots)

\* A fulfilled order drained one lot and took only part of the next one.
C19_Witness ==
    /\ FulfillReturned("true")
    /\ Cardinality(DrainedLots) = 1
    /\ MatchingQuantity(game_data.inventory, SelectedOrder.retailer,
                        SelectedOrder.denomination) > 0
    /\ \E i \in 1..Len(prev_data.inventory) :
           /\ i \notin DrainedLots
           /\ MatchesOrder(prev_data.inventory[i], SelectedOrder)
           /\ \E j \in 1..Len(game_data.inventory) :
                  /\ game_data.inventory[j].card = prev_data.inventory[i].card
                  /\ game_data.inventory[j].quantity < prev_data.inventory[i].quantity

\* What add_to_inventory merges by.
MergeKey(item) ==
    <<item.card.retailer, item.card.denomination, item.card.purchase_price>>

\* C20: purchases merge by (retailer, denomination, unit cost): after any
\* sequence of purchases, fulfillments, sales and ticks from the initial
\* state, no two inventory entries share the same (retailer, denomination,
\* unit purchase cost).
C20_MergeKeysDistinct ==
    \A i, j \in 1..Len(game_data.inventory) :
        MergeKey(game_data.inventory[i]) = MergeKey(game_data.inventory[j]) => i = j

\* A purchase was merged into the second of two entries of the same retailer
\* and denomination, bought at different prices: the ledger is as long as
\* before and that entry holds one card more.
C20_Witness ==
    /\ PurchaseAffordable
    /\ Len(game_data.inventory) = Len(prev_data.inventory)
    /\ \E i, j \in 1..Len(game_data.inventory) :
           /\ i < j
           /\ game_data.inventory[i].card.retailer = game_data.inventory[j].card.retailer
           /\ game_data.inventory[i].card.denomination
                  = game_data.inventory[j].card.denomination
           /\ game_data.inventory[i].card.purchase_price
                  # game_data.inventory[j].card.purchase_price
           /\ game_data.inventory[j].quantity = prev_data.inventory[j].quantity + 1
           /\ game_data.inventory[i] = prev_data.inventory[i]

\* The season of a day by the calendar: a 360-day year of four 90-day seasons.
CalendarSeason(day) ==
    CASE ((day - 1) % 360) \in 0..89    -> "Spring"
      [] ((day - 1) % 360) \in 90..179  -> "Summer"
      [] ((day - 1) % 360) \in 180..269 -> "Fall"
      [] ((day - 1) % 360) \in 270..359 -> "Winter"

\* The table of base demand modifiers.
SeasonDemand(season) ==
    CASE season = "Spring" -> f1_0
      [] season = "Summer" -> f1_1
      [] season = "Fall"   -> f0_9
      [] season = "Winter" -> f1_4

\* C21: after every daily tick the stored season equals the season derived
\* from the day number and the base demand modifier equals that season's
\* table value (Spring 1.0, Summer 1.1, Fall 0.9, Winter 1.4).
C21_SeasonFollowsDay ==
    /\ game_data.market_conditions.current_season = CalendarSeason(game_data.day)
    /\ game_data.market_conditions.base_demand_modifier
           = SeasonDemand(CalendarSeason(game_data.day))

\* The tick of day 271 turns Fall into Winter.
C21_Witness ==
    /\ Ticked
    /\ prev_data.market_conditions.current_season = "Fall"
    /\ prev_data.market_conditions.base_demand_modifier = f0_9
    /\ game_data.market_conditions.current_season = "Winter"
    /\ game_data.market_conditions.base_demand_modifier = f1_4

\* The discount in hundredths: the reputation tier (95, 93, 90, 87, 85), two
\* more under high demand, three fewer under low demand, held in 80..98.
DiscountPercent(reputation, demand_multiplier) ==
    LET tier == CASE reputation = 5 -> 95
                  [] reputation = 4 -> 93
                  [] reputation = 3 -> 90
                  [] reputation = 2 -> 87
                  [] OTHER          -> 85
        adjustment == IF FGt(demand_multiplier, f1_2) THEN 2
                      ELSE IF FLt(demand_multiplier, f0_8) THEN -3
                      ELSE 0
    IN  Min(98, Max(80, tier + adjustment))

\* The order the last tick generated, and the catalog pair it is for.
GeneratedOrder == game_data.customer_orders[Len(game_data.customer_orders)]

GeneratedCard == available_cards[((game_data.day + game_data.hour) % 5) + 1]

\* The indices, quantity and deadline of an order generated in a tick.
GeneratedAsIndexed ==
    /\ GeneratedOrder.id = prev_data.next_order_id
    /\ GeneratedOrder.retailer = GeneratedCard[1]
    /\ GeneratedOrder.denomination = GeneratedCard[2]
    /\ GeneratedOrder.customer_name =
           customer_names[((prev_data.next_order_id + game_data.day) % 8) + 1]
    /\ GeneratedOrder.quantity = 1 + (game_data.day % 5)
    /\ GeneratedOrder.deadline_days = 2 + (game_data.day % 5)

\* C22: generate_order is a deterministic function of (day, hour, reputation,
\* next_order_id, market state): catalog index (day+hour) mod 5, customer
\* index (next_order_id+day) mod 8, quantity 1+(day mod 5), deadline
\* 2+(day mod 5), offered price floor(denomination * discount).  With day 1,
\* hour 9, reputation 3, next_order_id 1000 and a demand-neutral market it
\* yields (Amazon, 25), the customer at index 1, quantity 2, discount 0.90
\* and offered price 22.
C22_GenerateOrder ==
    /\ (Ticked /\ OrderGenerated) =>
           /\ GeneratedAsIndexed
           /\ GeneratedOrder.offered_price_per_card =
                  (GeneratedCard[2]
                     * DiscountPercent(ReputationAfterExpiry,
                           get_demand_multiplier(prev_data, GeneratedCard[1]))) \div 100
    /\ (last_op.op = "new" /\ game_data.day = 1 /\ game_data.hour = 9
           /\ game_data.next_order_id = 1002 /\ Len(game_data.customer_orders) = 2) =>
           /\ game_data.customer_orders[1].id = 1000
           /\ game_data.customer_orders[1].retailer = "Amazon"
           /\ game_data.customer_orders[1].denomination = 25
           /\ game_data.customer_orders[1].customer_name = customer_names[2]
           /\ game_data.customer_orders[1].quantity = 2
           /\ game_data.customer_orders[1].offered_price_per_card = 22

\* The last command was a direct sale with something to sell, and the entry
\* it sold (the selection is held within the ledger).
Sold == last_op.op = "sell" /\ prev_data.inventory # <<>>

SoldIndex == Min(last_op.arg, Len(prev_data.inventory) - 1) + 1

SoldItem == prev_data.inventory[SoldIndex]

\* What a direct sale pays: floor(0.85 * denomination) for every card.
SaleValue(item) == ((85 * item.card.denomination) \div 100) * item.quantity

\* C23: a direct sale of inventory entry i sells the whole entry at 85% of
\* face value: cash increases by floor(0.85 * denomination) * quantity,
\* total_revenue and cards_sold increase by that revenue and that quantity,
\* and entry i is removed, while orders_completed, reputation and the order
\* book are unchanged.
C23_DirectSale ==
    Sold =>
        /\ game_data.cash = prev_data.cash + SaleValue(SoldItem)
        /\ game_data.analytics.total_revenue =
               prev_data.analytics.total_revenue + SaleValue(SoldItem)
        /\ game_data.analytics.cards_sold =
               prev_data.analytics.cards_sold + SoldItem.quantity
        /\ game_data.inventory = RemoveAt(prev_data.inventory, SoldIndex)
        /\ game_data.analytics.orders_completed = prev_data.analytics.orders_completed
        /\ game_data.reputation = prev_data.reputation
        /\ game_data.customer_orders = prev_data.customer_orders

\* The Walmart lot of a new game is sold: 6 cards of $20 bought at 17 each
\* go for 17 each, and the four lots before it stay.
C23_Witness ==
    /\ Sold
    /\ SoldItem.card.retailer = "Walmart" /\ SoldItem.card.denomination = 20
    /\ SoldItem.quantity = 6 /\ SoldIndex = 5
    /\ game_data.cash = prev_data.cash + 102
    /\ Len(game_data.inventory) = 4
    /\ prev_data.customer_orders # <<>>

\* The price multipliers of the active market events whose scope includes
\* the retailer, in the order the events were created.
ScopedMultipliers(g, retailer) ==
    LET InScope(event) == event.retailer_affected \in {None, retailer}
        scoped == SelectSeq(g.market_conditions.active_events, InScope)
    IN  [i \in 1..Len(scoped) |-> scoped[i].price_multiplier]

\* start times the factors, multiplied one after the other in binary32.
RECURSIVE ProductFrom(_, _)
ProductFrom(start, factors) ==
    IF factors = <<>> THEN start
    ELSE FMul(ProductFrom(start, SubSeq(factors, 1, Len(factors) - 1)),
              factors[Len(factors)])

SeasonBonus(g, retailer) ==
    Season_retailer_bonus(g.market_conditions.current_season, retailer)

RetailerSet == {Retailers[i] : i \in 1..Len(Retailers)}

\* C24: the price multiplier of a retailer is the season's retailer bonus
\* times the price multipliers of the active market events whose scope
\* includes the retailer (an event naming another retailer contributes
\* nothing); with no active market event and no temporary modifier the
\* multiplier applied to a purchase is exactly the season's bonus.
C24_PriceMultiplier ==
    \A retailer \in RetailerSet :
        /\ get_price_multiplier(game_data, retailer) =
               ProductFrom(SeasonBonus(game_data, retailer),
                           ScopedMultipliers(game_data, retailer))
        /\ (/\ game_data.market_conditions.active_events = <<>>
            /\ game_data.random_events.temp_modifiers = <<>>)
           => get_price_multiplier_with_random_events(game_data, retailer) =
                  SeasonBonus(game_data, retailer)

\* Walmart Expansion (Walmart only, prices x0.95) is active in Summer:
\* Walmart cards cost 1.1 x 0.95 of the base price and Target cards the
\* plain 1.2 of the season.
C24_Witness ==
    /\ \E i \in 1..Len(game_data.market_conditions.active_events) :
           /\ game_data.market_conditions.active_events[i].retailer_affected = "Walmart"
           /\ game_data.market_conditions.active_events[i].price_multiplier = f0_95
    /\ game_data.market_conditions.current_season = "Summer"
    /\ get_price_multiplier(game_data, "Walmart") = FMul(f1_1, f0_95)
    /\ get_price_multiplier(game_data, "Walmart") # f1_1
    /\ get_price_multiplier(game_data, "Target") = f1_2

LoadFailed == last_op.op = "load" /\ last_op.ret = "false"

\* C25: when loading a snapshot fails, the load reports failure and the game
\* state in memory (cash, reputation, clock, inventory, orders, market,
\* achievements, random-event manager and all the rest) is left as it was;
\* the only change is one failure entry put on the activity log.
C25_FailedLoadKeepsState ==
    LoadFailed =>
        game_data =
            [prev_data EXCEPT !.recent_activities =
                LogWith(@, Entry("Failed to load game", "", 0))]

\* A load fails after the game moved on from the snapshot on disk: the clock
\* in memory is kept, not the snapshot's.
C25_Witness ==
    /\ LoadFailed
    /\ save_file # <<>>
    /\ <<from_str(save_file[1], 0).hour, from_str(save_file[1], 0).minute>> #
           <<prev_data.hour, prev_data.minute>>
    /\ <<game_data.hour, game_data.minute>> = <<prev_data.hour, prev_data.minute>>
    /\ game_data.recent_activities[1].msg = "Failed to load game"

\* The fields C26 is about.
Snapshot(g) ==
    [cash |-> g.cash, day |-> g.day, hour |-> g.hour, minute |-> g.minute,
     reputation |-> g.reputation, recent_activities |-> g.recent_activities,
     inventory |-> g.inventory, customer_orders |-> g.customer_orders]

\* What reading back the serialised state gives.
RoundTrip(g) == from_str(to_string_pretty(g), g.ticks)

Pending(g) == g.random_events.player_choice_pending

\* The days left to a pending choice: its deadline less the current day.
DaysToDeadline(g) == g.random_events.choice_deadline - g.day

\* C27: a choice event fired in the daily tick of day d gets choice_deadline
\* d + 2; unless the player resolves it first it is still pending after the
\* tick of day d + 1 and no longer pending after the tick of day d + 2, so
\* that a pending choice always has one or two days left and none stays
\* pending across more than two further ticks.
C27_ChoiceDeadline ==
    /\ Pending(game_data) =>
           /\ game_data.random_events.active_event # <<>>
           /\ DaysToDeadline(game_data) \in {1, 2}
    /\ (Ticked /\ ~Pending(prev_data) /\ Pending(game_data)) =>
           game_data.random_events.choice_deadline = game_data.day + 2
    /\ (Ticked /\ Pending(prev_data) /\ DaysToDeadline(prev_data) = 2) =>
           /\ Pending(game_data)
           /\ game_data.random_events.active_event = prev_data.random_events.active_event
           /\ DaysToDeadline(game_data) = 1
    /\ (Ticked /\ Pending(prev_data) /\ DaysToDeadline(prev_data) = 1) =>
           /\ ~Pending(game_data)
           /\ game_data.random_events.active_event = <<>>

\* The tick of day d + 2 finds the choice fired on day d still pending and
\* ends it.
C27_Witness ==
    /\ Ticked
    /\ Pending(prev_data)
    /\ game_data.day = prev_data.random_events.choice_deadline
    /\ ~Pending(game_data)

\* The last command resolved the choice event that was pending.
Resolved ==
    /\ last_op.op = "choice"
    /\ Pending(prev_data)
    /\ prev_data.random_events.active_event # <<>>

ResolvedEvent == prev_data.random_events.active_event[1]

\* The table entry of the resolved event and the index chosen.
ChosenEntry == apply_choice(ResolvedEvent, last_op.arg)

\* The (event type, index) combinations the table has an entry for.
TableKeys ==
    { <<"BusinessOffer", 0>>, <<"BusinessOffer", 1>>,
      <<"CharityRequest", 0>>, <<"CharityRequest", 1>>, <<"CharityRequest", 2>>,
      <<"CompetitorMeeting", 0>>, <<"CompetitorMeeting", 1>> }

Unmapped == <<ResolvedEvent.event_type, last_op.arg>> \notin TableKeys

\* What resolving leaves besides cash: nothing pending, reputation moved by
\* the entry's delta within [1, 5], the entry's modifiers appended once, and
\* for a combination the table lacks no change of cash, reputation or
\* modifiers.
ResolvedEffects ==
    /\ ~Pending(game_data)
    /\ game_data.random_events.active_event = <<>>
    /\ game_data.reputation =
           ClampedReputation(prev_data.reputation, ChosenEntry.reputation)
    /\ game_data.random_events.temp_modifiers =
           prev_data.random_events.temp_modifiers \o ChosenEntry.modifiers
    /\ Unmapped =>
           /\ game_data.cash = prev_data.cash
           /\ game_data.reputation = prev_data.reputation
           /\ game_data.random_events.temp_modifiers =
                  prev_data.random_events.temp_modifiers

\* C28 as stated: resolve_choice(i) on a pending choice event clears the
\* pending state, applies the cash and reputation deltas of the (event type,
\* i) table entry and appends each temp modifier the entry produces exactly
\* once; a combination not in the table changes neither cash nor reputation
\* and adds no modifier.
C28_ChoiceApplied ==
    Resolved =>
        /\ ResolvedEffects
        /\ game_data.cash = prev_data.cash + ChosenEntry.cash

\* C28 amended: as stated, but the cash delta of the entry is applied as far
\* as the cash at hand goes: a cost above the current cash leaves 0.
C28_ChoiceResolved ==
    Resolved =>
        /\ ResolvedEffects
        /\ game_data.cash = Max(prev_data.cash + ChosenEntry.cash, 0)

\* The Partnership Proposal is accepted: 1000 is paid and the Business
\* Partnership modifier is on the active list once.
C28_Witness ==
    /\ Resolved
    /\ ResolvedEvent.event_type = "BusinessOffer" /\ last_op.arg = 0
    /\ game_data.cash = prev_data.cash - 1000
    /\ Len(game_data.random_events.temp_modifiers) =
           Len(prev_data.random_events.temp_modifiers) + 1
    /\ game_data.random_events.temp_modifiers[
           Len(game_data.random_events.temp_modifiers)].name = "Business Partnership"
    /\ ~Pending(game_data)

\* events are market events of before, each with fewer days remaining, and
\* none is new.
CarriedOver(events, before) ==
    /\ Len(events) <= Len(before)
    /\ \A i \in 1..Len(events) : \E j \in 1..Len(before) :
           /\ [events[i] EXCEPT !.remaining_days = 0] =
                  [before[j] EXCEPT !.remaining_days = 0]
           /\ events[i].remaining_days < before[j].remaining_days

\* The market event the tick of the current day creates when it creates one.
CreatedMarketEvent == MarketEventTemplate(game_data.day % 8)

\* C29: the market event countdown decreases by 1 on every tick while it is
\* positive, and such a tick creates no market event; a tick that finds it at
\* 0 creates exactly one market event, the palette entry (day mod 8) with
\* its remaining duration equal to the template duration, and reseeds the
\* countdown to 5 + (day mod 10), a value in 5..14.  No tick creates more
\* than one market event.
C29_MarketCountdown ==
    LET before == prev_data.market_conditions
        after == game_data.market_conditions
    IN  /\ (Ticked /\ before.next_event_in_days > 0) =>
               /\ after.next_event_in_days = before.next_event_in_days - 1
               /\ CarriedOver(after.active_events, before.active_events)
        /\ (Ticked /\ before.next_event_in_days = 0) =>
               /\ after.active_events # <<>>
               /\ after.active_events[Len(after.active_events)] = CreatedMarketEvent
               /\ CreatedMarketEvent.remaining_days = CreatedMarketEvent.duration_days
               /\ CarriedOver(SubSeq(after.active_events, 1, Len(after.active_events) - 1),
                              before.active_events)
               /\ after.next_event_in_days = 5 + (game_data.day % 10)
               /\ after.next_event_in_days \in 5..14
        /\ Ticked => Len(after.active_events) <= Len(before.active_events) + 1

\* The tick of day 6 finds the countdown at 0: Walmart Expansion is created
\* with its 4 days and the countdown is set to 11.
C29_Witness ==
    /\ MarketEventFired
    /\ game_data.day = 6
    /\ game_data.market_conditions.active_events =
           <<MarketEvent_new("Walmart Expansion", "Walmart", f0_95, f1_3, 4)>>
    /\ game_data.market_conditions.next_event_in_days = 11

LegendaryUnlocked(g) == Achievements(g)["LegendaryStatus"].unlocked

\* C30: Legendary Status is unlocked by the operation that brings reputation
\* to 5: in every state after a successful fulfill or a resolved choice that
\* leaves reputation = 5, Legendary Status is unlocked.
C30_LegendaryAtFive ==
    ((FulfillReturned("true") \/ Resolved) /\ game_data.reputation = 5) =>
        LegendaryUnlocked(game_data)

\* The streak of perfect days the achievement tracker keeps.
PerfectStreak(g) == g.achievements.consecutive_perfect_days

\* The day the last tick closed had at least one completed order and the tick
\* found no order expired.
PerfectDayClosed ==
    /\ Ticked
    /\ prev_data.achievements.orders_today > 0
    /\ ExpiredInTick = 0

\* C31: the perfect-day streak counter increases by 1 at each daily tick that
\* closes a day with at least one completed order and no expiration, and is
\* reset to 0 by a tick that breaks that condition; Perfect Week is unlocked
\* when the streak reaches 7.
C31_PerfectDayStreak ==
    /\ PerfectDayClosed => PerfectStreak(game_data) = PerfectStreak(prev_data) + 1
    /\ (Ticked /\ ~PerfectDayClosed) => PerfectStreak(game_data) = 0
    /\ PerfectStreak(game_data) >= 7 => Achievements(game_data)["PerfectWeek"].unlocked

\* The number of market events the last tick ended: those active before it
\* that are no longer active after it (the tick adds one event when it found
\* the market countdown at 0).
EndedInTick ==
    Len(prev_data.market_conditions.active_events)
        + (IF prev_data.market_conditions.next_event_in_days = 0 THEN 1 ELSE 0)
        - Len(game_data.market_conditions.active_events)

\* C32: the daily tick advances event-survival progress: each market event
\* that ends increases the events-survived counter by 1, and Event Survivor
\* ('Survive 10 market events') is unlocked once 10 market events have ended.
C32_EventSurvival ==
    /\ Ticked =>
           game_data.achievements.events_survived =
               prev_data.achievements.events_survived + EndedInTick
    /\ game_data.achievements.events_survived >= 10 =>
           Achievements(game_data)["EventSurvivor"].unlocked

\* The deadline an order was created with.  generate_random_order gives an
\* order of day d the quantity 1 + (d mod 5) and the deadline 2 + (d mod 5),
\* and the quantity is never changed afterwards.
OriginalDeadline(order) == order.quantity + 1

\* More than half of the order's original deadline remains.
FastFulfillment(order) == 2 * order.deadline_days > OriginalDeadline(order)

\* C33: a successful fulfill raises reputation by exactly 1 when it is below
\* 5 and leaves it at 5 otherwise, and the reputation log entry is the
\* distinct 'fast fulfillment' message exactly when the order's remaining
\* deadline at fulfillment is more than half of the deadline the order was
\* created with.
C33_FulfillReputation ==
    FulfillReturned("true") =>
        /\ game_data.reputation = Min(prev_data.reputation + 1, 5)
        /\ prev_data.reputation < 5 =>
               game_data.recent_activities[1] =
                   Entry("Reputation improved",
                         IF FastFulfillment(SelectedOrder)
                         THEN "fast_fulfillment" ELSE "order_fulfilled", 0)

\* The cards a fulfill of order takes from entry i of inventory when the
\* matching lots are consumed in ledger order: what the order still needs
\* after the matching entries before i, as far as entry i holds it.
TakenFrom(inventory, order, i) ==
    IF MatchesOrder(inventory[i], order)
    THEN Min(inventory[i].quantity,
             Max(order.quantity
                     - MatchingQuantity(SubSeq(inventory, 1, i - 1),
                                        order.retailer, order.denomination), 0))
    ELSE 0

\* The ledger after such a fulfill: every entry less the cards taken from it,
\* the drained entries removed.
ConsumedInOrder(inventory, order) ==
    LET left == [i \in 1..Len(inventory) |->
                    [inventory[i] EXCEPT !.quantity = @ - TakenFrom(inventory, order, i)]]
    IN  SelectSeq(left, LAMBDA item : item.quantity > 0)

\* The entries a fulfill of order leaves partially consumed.
PartlyTaken(inventory, order) ==
    {i \in 1..Len(inventory) :
        /\ TakenFrom(inventory, order, i) > 0
        /\ TakenFrom(inventory, order, i) < inventory[i].quantity}

\* C34: fulfillment consumes matching lots in ledger order and may span
\* several lots: a matching entry at a later index loses cards only if every
\* matching entry at an earlier index was fully drained and removed by the
\* same fulfill, and at most one matching entry is left partially consumed.
C34_LedgerOrder ==
    FulfillReturned("true") =>
        /\ game_data.inventory = ConsumedInOrder(prev_data.inventory, SelectedOrder)
        /\ \A i, j \in 1..Len(prev_data.inventory) :
               (/\ i < j
                /\ MatchesOrder(prev_data.inventory[i], SelectedOrder)
                /\ TakenFrom(prev_data.inventory, SelectedOrder, j) > 0)
               => TakenFrom(prev_data.inventory, SelectedOrder, i) =
                      prev_data.inventory[i].quantity
        /\ Cardinality(PartlyTaken(prev_data.inventory, SelectedOrder)) <= 1

\* A fulfilled order spans two lots: the earlier one is drained and removed
\* and the later one keeps some of its cards.
C34_Witness ==
    /\ FulfillReturned("true")
    /\ \E i, j \in 1..Len(prev_data.inventory) :
           /\ i < j
           /\ TakenFrom(prev_data.inventory, SelectedOrder, i) = prev_data.inventory[i].quantity
           /\ TakenFrom(prev_data.inventory, SelectedOrder, j) > 0
           /\ TakenFrom(prev_data.inventory, SelectedOrder, j) < prev_data.inventory[j].quantity
    /\ Len(game_data.inventory) = Len(prev_data.inventory) - 1
    /\ game_data.inventory = ConsumedInOrder(prev_data.inventory, SelectedOrder)

\* The Amazon cards in a ledger, of any denomination.
AmazonCards(inventory) ==
    SumSeq([i \in 1..Len(inventory) |->
               IF inventory[i].card.retailer = "Amazon" THEN inventory[i].quantity ELSE 0])

\* The last command resolved the Charity Fundraiser with 'Donate 2 Amazon
\* cards', and 2 Amazon cards were at hand.
CardsDonated ==
    /\ Resolved
    /\ ResolvedEvent.event_type = "CharityRequest"
    /\ last_op.arg = 1
    /\ AmazonCards(prev_data.inventory) >= 2

\* C35: resolving the Charity Fundraiser with choice index 1 ('Donate 2
\* Amazon cards (+reputation)') removes 2 Amazon cards from the inventory and
\* raises reputation by 1 (capped at 5), with no change to cash.
C35_DonateCards ==
    CardsDonated =>
        /\ AmazonCards(game_data.inventory) = AmazonCards(prev_data.inventory) - 2
        /\ game_data.reputation = Min(prev_data.reputation + 1, 5)
        /\ game_data.cash = prev_data.cash

\* The game time elapsed since day 0, 00:00, in minutes.
Elapsed(g) == g.day * 1440 + g.hour * 60 + g.minute

\* C36: for every advance(m) with m in 0..255 from a state with minute < 60
\* and hour < 24, the elapsed game time day*1440 + hour*60 + minute increases
\* by exactly m, and afterwards minute < 60 and hour < 24; no 8-bit overflow
\* of the minute or hour counter occurs.
C36_ElapsedExact ==
    (last_op.op = "advance" /\ prev_data.minute < 60 /\ prev_data.hour < 24) =>
        /\ last_op.ret = "unit"
        /\ Elapsed(game_data) = Elapsed(prev_data) + last_op.arg
        /\ game_data.minute < 60 /\ game_data.hour < 24

\* The achievements of the catalog that are unlocked.
UnlockedSet(g) == {t \in AchievementTypes : Achievements(g)[t].unlocked}

OrderIds(orders) == [i \in 1..Len(orders) |-> orders[i].id]

\* C38: order generation appends exactly one order at the back of the queue
\* with id equal to the previous next_order_id and then increments
\* next_order_id by 1; in every reachable state the ids in the order book are
\* distinct, strictly increasing from front to back and all smaller than
\* next_order_id, and every order in the book has quantity in 1..5, offered
\* price > 0 and remaining deadline >= 1.
C38_OrderBook ==
    LET orders == game_data.customer_orders
    IN  /\ OrderGenerated =>
            /\ game_data.next_order_id = prev_data.next_order_id + 1
            /\ Len(orders) = Len(Survivors(prev_data.customer_orders)) + 1
            /\ SubSeq(orders, 1, Len(orders) - 1) =
                   Survivors(prev_data.customer_orders)
            /\ orders[Len(orders)].id = prev_data.next_order_id
        /\ \A i \in 1..Len(orders) : \A j \in 1..Len(orders) :
               i < j => orders[i].id < orders[j].id
        /\ \A i \in 1..Len(orders) :
               /\ orders[i].id < game_data.next_order_id
               /\ orders[i].quantity \in 1..5
               /\ orders[i].offered_price_per_card > 0
               /\ orders[i].deadline_days >= 1

\* A tick generates an order behind two older ones.
C38_Witness ==
    /\ Ticked /\ OrderGenerated
    /\ Len(game_data.customer_orders) >= 3
    /\ OrderIds(game_data.customer_orders)[Len(game_data.customer_orders)] =
           prev_data.next_order_id

\* One demand multiplier for each branch of the demand adjustment: below
\* 0.8, neither, above 1.2.
DemandSamples == {FRatio(1, 2), FRatio(1, 1), FRatio(2, 1)}

\* The price generate_random_order offers for a card at a discount fraction.
OfferAt(discount, denomination) ==
    FTrunc(FMul(FRatio(denomination, 1), discount))

\* The price it offers for a reputation and a demand multiplier.
OfferFor(reputation, demand_multiplier, denomination) ==
    OfferAt(final_discount(reputation, demand_multiplier), denomination)

\* C39: every generated order has an offered price per card strictly below
\* its denomination, so the thresholds denomination+5 and denomination+8 are
\* never reached and every generated order has priority Low, for every
\* reputation, day, hour and market state: of every order in the book of
\* every reachable state, and, wherever an order is generated, of the offer
\* computed for every reputation tier, every branch of the demand adjustment
\* and every catalog card.
C39_AlwaysLow ==
    /\ \A i \in 1..Len(game_data.customer_orders) :
           LET order == game_data.customer_orders[i]
           IN  /\ order.offered_price_per_card < order.denomination
               /\ order.priority = "Low"
    /\ OrderGenerated =>
           \A reputation \in 0..5 : \A m \in DemandSamples :
               Let(final_discount(reputation, m), LAMBDA discount :
                   \A c \in 1..Len(available_cards) :
                       Let(OfferAt(discount, available_cards[c][2]),
                           LAMBDA offered_price :
                               /\ offered_price < available_cards[c][2]
                               /\ order_priority(offered_price,
                                                 available_cards[c][2]) = "Low"))

\* A tick generates an order for a retailer in high demand (multiplier above
\* 1.2, two points added to the tier's fraction): still below face value, Low.
C39_Witness ==
    /\ Ticked /\ OrderGenerated
    /\ FGt(get_demand_multiplier(prev_data, GeneratedOrder.retailer), FRatio(12, 10))
    /\ GeneratedOrder.offered_price_per_card =
           OfferFor(game_data.reputation, FRatio(2, 1), GeneratedOrder.denomination)
    /\ GeneratedOrder.offered_price_per_card < GeneratedOrder.denomination
    /\ GeneratedOrder.priority = "Low"

\* The event the random-event manager holds, as a sequence of at most one.
ActiveEvent(g) == g.random_events.active_event

\* A tick that begins and ends with a choice pending.
PendingAcrossTick == Ticked /\ Pending(prev_data) /\ Pending(game_data)

\* C40: in every state between operations player_choice_pending is true
\* exactly when the random-event manager holds an active event, that active
\* event is never an auto-resolving one, and while it is pending the
\* narrative-event countdown is not decremented by daily ticks and no second
\* narrative event fires.
C40_PendingChoice ==
    /\ Pending(game_data) <=> ActiveEvent(game_data) # <<>>
    /\ ActiveEvent(game_data) # <<>> => ~ActiveEvent(game_data)[1].auto_resolve
    /\ PendingAcrossTick =>
           /\ game_data.random_events.next_event_in_days =
                  prev_data.random_events.next_event_in_days
           /\ game_data.random_events.event_history =
                  prev_data.random_events.event_history
           /\ ActiveEvent(game_data) = ActiveEvent(prev_data)

\* The tick after the one that fired a choice event: the event is still
\* pending and the countdown set when it fired stands.
C40_Witness ==
    /\ PendingAcrossTick
    /\ ActiveEvent(game_data) # <<>>
    /\ ~ActiveEvent(game_data)[1].auto_resolve
    /\ game_data.random_events.next_event_in_days >= 3
    /\ game_data.random_events.next_event_in_days =
           prev_data.random_events.next_event_in_days
====
